---- MODULE Spec2Model ----
(***************************************************************************)
(* Rules engine of "Sequence for Friends": the card/board model, move      *)
(* legality and application (rules/engine.ts), the sequence detector       *)
(* (rules/sequences.ts), the stalemate resolver and the per-room turn      *)
(* timer of the socket server (index.ts).                                  *)
(*                                                                         *)
(* One room with one game is modelled.  A player's id is the player's      *)
(* seat index; an id that is no seat stands for a socket whose player is   *)
(* not in the game.  A cell key "row,col" is modelled by the pair          *)
(* <<row, col>>.  The display-only fields of GameState (lastMove,          *)
(* eventLog, turnStartedAt, cutCards, dealerIndex) are read by no rule     *)
(* and are left out.                                                       *)
(***************************************************************************)
EXTENDS Integers, Sequences, FiniteSets, TLC

VARIABLES
  gameState,    \* the room's GameState aggregate (a record, see Setup)
  timer,        \* the room's turn timer: its entry of the roomTimers map ("none", or the
                \* handle of a "live" or a "fired" callback), the seat whose turn the
                \* handle was scheduled for, and the number of scheduled callbacks no
                \* entry refers to any more
  last,         \* the last handler that ran, with its response
  playedSinceDraw,  \* history: a play-* has been applied since the last draw applied
  scn           \* which opening position and which client inputs this run explores
                \* (under SpecDetector: the line and the cell of its last chip)

vars == <<gameState, timer, last, playedSinceDraw, scn>>

-----------------------------------------------------------------------------
(* Bounds of the model *)

\* Successful card plays and replacements explored from an opening position.
MaxMoves == 3

\* Distinct outcomes of the secure random source tried for one reshuffle.
MaxSeed == 1

\* Largest reading of the wall clock (Date.now) a sequence is stamped with.
MaxClock == 3

-----------------------------------------------------------------------------
(* Card / board model: shared/types.ts *)

\* null (an empty cell, no winner, no timestamp)
None == -1

\* Infinity of the tie-break comparison: above every clock reading.
Infinity == MaxClock + 10

TWO_EYED_JACKS == {"JD", "JC"}
ONE_EYED_JACKS == {"JH", "JS"}

getJackType(card) ==
  IF card \in TWO_EYED_JACKS THEN "two-eyed"
  ELSE IF card \in ONE_EYED_JACKS THEN "one-eyed"
  ELSE "null"

SUITS == <<"S", "H", "D", "C">>
RANKS == <<"2", "3", "4", "5", "6", "7", "8", "9", "T", "J", "Q", "K", "A">>

\* card.startsWith('J'): the four codes of rank J
isJack(card) == card \in {"JS", "JH", "JD", "JC"}

BOARD_LAYOUT ==
  << <<"W",  "2S", "3S", "4S", "5S", "6S", "7S", "8S", "9S", "W" >>,
     <<"6C", "5C", "4C", "3C", "2C", "AH", "KH", "QH", "TH", "TS">>,
     <<"7C", "AS", "2D", "3D", "4D", "5D", "6D", "7D", "9H", "QS">>,
     <<"8C", "KS", "6C", "5C", "4C", "3C", "2C", "8D", "8H", "KS">>,
     <<"9C", "QS", "7C", "6H", "5H", "4H", "AH", "9D", "7H", "AS">>,
     <<"TC", "TS", "8C", "7H", "2H", "3H", "KH", "TD", "6H", "2D">>,
     <<"QC", "9S", "9C", "8H", "9H", "TH", "QH", "QD", "5H", "3D">>,
     <<"KC", "8S", "TC", "QC", "KC", "AC", "AD", "KD", "4H", "4D">>,
     <<"AC", "7S", "6S", "5S", "4S", "3S", "2S", "2H", "3H", "5D">>,
     <<"W",  "AD", "KD", "QD", "TD", "9D", "8D", "7D", "6D", "W" >> >>

Rows == 0..9
Cells == Rows \X Rows

CORNER_POSITIONS == {<<0, 0>>, <<0, 9>>, <<9, 0>>, <<9, 9>>}

isCorner(row, col) == <<row, col>> \in CORNER_POSITIONS

\* the positions printed with the card (the order of the scan is not used)
PrintedAt(cell) == BOARD_LAYOUT[cell[1] + 1][cell[2] + 1]

findCardPositions(card) == {cell \in Cells : PrintedAt(cell) = card}

\* the cell key of a set entry
cellKey(row, col) == <<row, col>>

NoCell == <<None, None>>

-----------------------------------------------------------------------------
(* Deck manager: rules/deck.ts *)

\* createSingleDeck: suits outer, ranks inner; the code "rank suit" is element
\* 13 * (suit index) + (rank index) of the list
CardCodes ==
  << "2S", "3S", "4S", "5S", "6S", "7S", "8S", "9S", "TS", "JS", "QS", "KS", "AS",
     "2H", "3H", "4H", "5H", "6H", "7H", "8H", "9H", "TH", "JH", "QH", "KH", "AH",
     "2D", "3D", "4D", "5D", "6D", "7D", "8D", "9D", "TD", "JD", "QD", "KD", "AD",
     "2C", "3C", "4C", "5C", "6C", "7C", "8C", "9C", "TC", "JC", "QC", "KC", "AC" >>

createSingleDeck ==
  [i \in 1..(Len(SUITS) * Len(RANKS)) |-> CardCodes[i]]

createDeck == createSingleDeck \o createSingleDeck

\* [a[i], a[j]] = [a[j], a[i]] on a 1-based sequence
Swap(a, i, j) == [a EXCEPT ![i] = a[j], ![j] = a[i]]

\* randomInt(0, i + 1) of the run's random source: a value of 0..i fixed by the seed
randomInt(seed, i) == (seed * i) % (i + 1)

\* for (i = length - 1; i > 0; i--) swap(shuffled[i], shuffled[randomInt(0, i + 1)]);
\* i is an index of the array throughout
RECURSIVE FisherYates(_, _, _)
FisherYates(shuffled, i, seed) ==
  IF i <= 0 \/ i >= Len(shuffled) THEN shuffled
  ELSE FisherYates(Swap(shuffled, i + 1, randomInt(seed, i) + 1), i - 1, seed)

shuffleDeck(deck, seed) == FisherYates(deck, Len(deck) - 1, seed)

\* drawCard: the head card, or null of an empty deck; the deck loses its head
drawCard(deck) ==
  IF Len(deck) = 0 THEN [card |-> "null", deck |-> deck]
  ELSE [card |-> Head(deck), deck |-> Tail(deck)]

RECURSIVE Concat(_, _)
Concat(piles, i) ==
  IF i > Len(piles) THEN <<>> ELSE piles[i] \o Concat(piles, i + 1)

\* reshuffleDiscards taking up the first pile only
reshuffleDiscardsFirstPile(discardPiles, seed) == shuffleDeck(discardPiles[1], seed)

reshuffleDiscards(discardPiles, seed) == shuffleDeck(Concat(discardPiles, 1), seed)

-----------------------------------------------------------------------------
(* Sequence detector: rules/sequences.ts *)

\* [rowDelta, colDelta]: horizontal, vertical, diagonal down-right, diagonal down-left
DIRECTIONS == << <<0, 1>>, <<1, 0>>, <<1, 1>>, <<1, -1>> >>

isValidPosition(row, col) == row >= 0 /\ row < 10 /\ col >= 0 /\ col < 10

\* isCellOccupiedByTeam with corners counting for nobody
isCellOccupiedByTeamNoCorner(boardChips, row, col, teamIndex) ==
  boardChips[<<row, col>>] = teamIndex

\* corners count for everyone
isCellOccupiedByTeam(boardChips, row, col, teamIndex) ==
  IF isCorner(row, col) THEN TRUE ELSE boardChips[<<row, col>>] = teamIndex

\* the backward walk of getSequencesThroughCell: at most `left` steps from (row, col)
RECURSIVE LookBack(_, _, _, _, _, _, _)
LookBack(boardChips, row, col, dRow, dCol, teamIndex, left) ==
  IF left = 0 THEN <<row, col>>
  ELSE IF ~isValidPosition(row - dRow, col - dCol) THEN <<row, col>>
  ELSE IF ~isCellOccupiedByTeam(boardChips, row - dRow, col - dCol, teamIndex)
       THEN <<row, col>>
  ELSE LookBack(boardChips, row - dRow, col - dCol, dRow, dCol, teamIndex, left - 1)

\* the forward walk: the run of team-or-corner cells from (row, col) on
RECURSIVE CollectLine(_, _, _, _, _, _)
CollectLine(boardChips, row, col, dRow, dCol, teamIndex) ==
  IF isValidPosition(row, col) /\ isCellOccupiedByTeam(boardChips, row, col, teamIndex)
  THEN <<<<row, col>>>> \o CollectLine(boardChips, row + dRow, col + dCol, dRow, dCol, teamIndex)
  ELSE <<>>

CellsOf(line) == {line[i] : i \in 1..Len(line)}

\* the windows of `line` that hold the target cell, by increasing start
RECURSIVE Windows(_, _, _, _, _)
Windows(line, start, target, teamIndex, sequenceLength) ==
  IF start > Len(line) - sequenceLength THEN <<>>
  ELSE LET window == SubSeq(line, start + 1, start + sequenceLength)
       IN (IF target \in CellsOf(window)
           THEN <<[cells |-> window, teamIndex |-> teamIndex]>>
           ELSE <<>>)
          \o Windows(line, start + 1, target, teamIndex, sequenceLength)

\* the line collected from the start cell the backward walk has found
LineFrom(boardChips, start, d, teamIndex) ==
  CollectLine(boardChips, start[1], start[2], d[1], d[2], teamIndex)

\* WindowsOfLine returning the whole run as one sequence, however long it is
WindowsOfLineWhole(line, target, teamIndex, sequenceLength) ==
  IF Len(line) >= sequenceLength
  THEN <<[cells |-> line, teamIndex |-> teamIndex]>>
  ELSE <<>>

\* if (line.length >= sequenceLength): the windows of the line
WindowsOfLine(line, target, teamIndex, sequenceLength) ==
  IF Len(line) >= sequenceLength
  THEN Windows(line, 0, target, teamIndex, sequenceLength)
  ELSE <<>>

\* SequencesInDirection without the backward walk: the line is collected from the target
SequencesInDirectionForward(boardChips, targetRow, targetCol, teamIndex, sequenceLength, d) ==
  WindowsOfLine(LineFrom(boardChips, <<targetRow, targetCol>>, d, teamIndex),
                <<targetRow, targetCol>>, teamIndex, sequenceLength)

SequencesInDirection(boardChips, targetRow, targetCol, teamIndex, sequenceLength, d) ==
  WindowsOfLine(LineFrom(boardChips,
                         LookBack(boardChips, targetRow, targetCol, d[1], d[2], teamIndex,
                                  sequenceLength - 1),
                         d, teamIndex),
                <<targetRow, targetCol>>, teamIndex, sequenceLength)

getSequencesThroughCell(boardChips, targetRow, targetCol, teamIndex, sequenceLength) ==
  SequencesInDirection(boardChips, targetRow, targetCol, teamIndex, sequenceLength, DIRECTIONS[1])
  \o SequencesInDirection(boardChips, targetRow, targetCol, teamIndex, sequenceLength, DIRECTIONS[2])
  \o SequencesInDirection(boardChips, targetRow, targetCol, teamIndex, sequenceLength, DIRECTIONS[3])
  \o SequencesInDirection(boardChips, targetRow, targetCol, teamIndex, sequenceLength, DIRECTIONS[4])

\* the number of non-corner cells of the sequence that are in the locked set
NonCornerOverlap(sequence, lockedCells) ==
  Cardinality({i \in 1..Len(sequence.cells) :
                 /\ ~isCorner(sequence.cells[i][1], sequence.cells[i][2])
                 /\ cellKey(sequence.cells[i][1], sequence.cells[i][2]) \in lockedCells})

\* isValidSequenceOverlap allowing two shared cells
isValidSequenceOverlapTwo(sequence, lockedCells) ==
  NonCornerOverlap(sequence, lockedCells) <= 2

isValidSequenceOverlap(sequence, lockedCells) ==
  NonCornerOverlap(sequence, lockedCells) <= 1

\* the filter of detectNewSequences: not already counted, and within the overlap rule
IsNewSequence(seq, lockedCells, sequencesCompleted) ==
  LET allLocked == \A i \in 1..Len(seq.cells) :
                      \/ cellKey(seq.cells[i][1], seq.cells[i][2]) \in lockedCells
                      \/ isCorner(seq.cells[i][1], seq.cells[i][2])
  IN /\ ~allLocked
     /\ (sequencesCompleted > 0 => isValidSequenceOverlap(seq, lockedCells))

\* the first of the sequences with each set of cells (the sorted-cell key)
UniqueSequences(seqs) ==
  LET keep == {i \in 1..Len(seqs) :
                 \A j \in 1..(i - 1) : CellsOf(seqs[j].cells) # CellsOf(seqs[i].cells)}
      RECURSIVE Pick(_)
      Pick(i) == IF i > Len(seqs) THEN <<>>
                 ELSE (IF i \in keep THEN <<seqs[i]>> ELSE <<>>) \o Pick(i + 1)
  IN Pick(1)

detectNewSequences(boardChips, targetRow, targetCol, teamIndex, lockedCells, sequencesCompleted, sequencesToWin, sequenceLength) ==
  LET potentialSequences ==
        getSequencesThroughCell(boardChips, targetRow, targetCol, teamIndex, sequenceLength)
      newSequences ==
        SelectSeq(potentialSequences,
                  LAMBDA seq : IsNewSequence(seq, lockedCells, sequencesCompleted))
  IN UniqueSequences(newSequences)

\* lockedCells: team index -> set of cell keys (every team has an entry, empty at first)
isCellLocked(lockedCells, row, col) ==
  \E t \in DOMAIN lockedCells : cellKey(row, col) \in lockedCells[t]

\* lockSequenceCells locking the corners of the sequence too
lockSequenceCellsWithCorners(lockedCells, sequence) ==
  [lockedCells EXCEPT ![sequence.teamIndex] =
     @ \cup {cellKey(sequence.cells[i][1], sequence.cells[i][2]) :
               i \in 1..Len(sequence.cells)}]

lockSequenceCells(lockedCells, sequence) ==
  [lockedCells EXCEPT ![sequence.teamIndex] =
     @ \cup {cellKey(sequence.cells[i][1], sequence.cells[i][2]) :
               i \in {k \in 1..Len(sequence.cells) :
                        ~isCorner(sequence.cells[k][1], sequence.cells[k][2])}}]

-----------------------------------------------------------------------------
(* Move legality: rules/engine.ts *)

ActionTypes == {"draw", "replace-dead", "play-normal", "play-two-eyed", "play-one-eyed"}
PlayTypes == {"play-normal", "play-two-eyed", "play-one-eyed"}

DrawAction == [type |-> "draw", card |-> "null", targetRow |-> None, targetCol |-> None]
ReplaceDeadAction(card) ==
  [type |-> "replace-dead", card |-> card, targetRow |-> None, targetCol |-> None]
PlayAction(type, card, row, col) ==
  [type |-> type, card |-> card, targetRow |-> row, targetCol |-> col]

\* Array.prototype.includes / indexOf on a 1-based sequence
Includes(hand, card) == \E i \in 1..Len(hand) : hand[i] = card
IndexOf(hand, card) == CHOOSE i \in 1..Len(hand) :
                         hand[i] = card /\ \A j \in 1..(i - 1) : hand[j] # card
\* hand.splice(cardIndex, 1)
Splice(hand, i) == SubSeq(hand, 1, i - 1) \o SubSeq(hand, i + 1, Len(hand))

\* isDeadCard asking for one occupied position only
isDeadCardSomeOccupied(card, boardChips) ==
  IF isJack(card) THEN FALSE
  ELSE \E pos \in findCardPositions(card) : boardChips[pos] # None

isDeadCard(card, boardChips) ==
  IF isJack(card) THEN FALSE
  ELSE \A pos \in findCardPositions(card) : boardChips[pos] # None

\* getLegalTargets without the test of the locked cells
getLegalTargetsIgnoringLocks(card, boardChips, teamIndex, lockedCells, lastRemovedCell) ==
  LET jackType == getJackType(card)
  IN IF jackType = "two-eyed"
     THEN {cell \in Cells :
             /\ ~isCorner(cell[1], cell[2])
             /\ boardChips[cell] = None
             /\ ~(lastRemovedCell # NoCell /\ lastRemovedCell = cell)}
     ELSE IF jackType = "one-eyed"
     THEN {cell \in Cells :
             /\ ~isCorner(cell[1], cell[2])
             /\ boardChips[cell] # None
             /\ boardChips[cell] # teamIndex}
     ELSE {cell \in findCardPositions(card) :
             boardChips[cell] = None /\ ~isCorner(cell[1], cell[2])}

\* getLegalTargets letting a one-eyed jack remove a chip of the actor's team
getLegalTargetsAnyChip(card, boardChips, teamIndex, lockedCells, lastRemovedCell) ==
  LET jackType == getJackType(card)
  IN IF jackType = "two-eyed"
     THEN {cell \in Cells :
             /\ ~isCorner(cell[1], cell[2])
             /\ boardChips[cell] = None
             /\ ~(lastRemovedCell # NoCell /\ lastRemovedCell = cell)}
     ELSE IF jackType = "one-eyed"
     THEN {cell \in Cells :
             /\ ~isCorner(cell[1], cell[2])
             /\ boardChips[cell] # None
             /\ ~isCellLocked(lockedCells, cell[1], cell[2])}
     ELSE {cell \in findCardPositions(card) :
             boardChips[cell] = None /\ ~isCorner(cell[1], cell[2])}

\* getLegalTargets letting a two-eyed jack refill the cell just emptied
getLegalTargetsRefill(card, boardChips, teamIndex, lockedCells, lastRemovedCell) ==
  LET jackType == getJackType(card)
  IN IF jackType = "two-eyed"
     THEN {cell \in Cells :
             /\ ~isCorner(cell[1], cell[2])
             /\ boardChips[cell] = None}
     ELSE IF jackType = "one-eyed"
     THEN {cell \in Cells :
             /\ ~isCorner(cell[1], cell[2])
             /\ boardChips[cell] # None
             /\ boardChips[cell] # teamIndex
             /\ ~isCellLocked(lockedCells, cell[1], cell[2])}
     ELSE {cell \in findCardPositions(card) :
             boardChips[cell] = None /\ ~isCorner(cell[1], cell[2])}

\* getLegalTargets giving a normal card every cell printed with it, empty or not
getLegalTargetsPrinted(card, boardChips, teamIndex, lockedCells, lastRemovedCell) ==
  LET jackType == getJackType(card)
  IN IF jackType = "two-eyed"
     THEN {cell \in Cells :
             /\ ~isCorner(cell[1], cell[2])
             /\ boardChips[cell] = None
             /\ ~(lastRemovedCell # NoCell /\ lastRemovedCell = cell)}
     ELSE IF jackType = "one-eyed"
     THEN {cell \in Cells :
             /\ ~isCorner(cell[1], cell[2])
             /\ boardChips[cell] # None
             /\ boardChips[cell] # teamIndex
             /\ ~isCellLocked(lockedCells, cell[1], cell[2])}
     ELSE {cell \in findCardPositions(card) : ~isCorner(cell[1], cell[2])}

getLegalTargets(card, boardChips, teamIndex, lockedCells, lastRemovedCell) ==
  LET jackType == getJackType(card)
  IN IF jackType = "two-eyed"
     THEN {cell \in Cells :
             /\ ~isCorner(cell[1], cell[2])
             /\ boardChips[cell] = None
             /\ ~(lastRemovedCell # NoCell /\ lastRemovedCell = cell)}
     ELSE IF jackType = "one-eyed"
     THEN {cell \in Cells :
             /\ ~isCorner(cell[1], cell[2])
             /\ boardChips[cell] # None
             /\ boardChips[cell] # teamIndex
             /\ ~isCellLocked(lockedCells, cell[1], cell[2])}
     ELSE {cell \in findCardPositions(card) :
             boardChips[cell] = None /\ ~isCorner(cell[1], cell[2])}

Valid == [valid |-> TRUE, error |-> ""]
Invalid(error) == [valid |-> FALSE, error |-> error]

\* the seats of the game; players.find(p => p.id === playerId) finds seat playerId
Seats(gs) == 0..(gs.config.playerCount - 1)

\* PlayLegality without the test of pendingDraw
PlayLegalityNoPending(gs, player, action) ==
  IF ~Includes(player.hand, action.card) THEN Invalid("You don't have that card")
  ELSE IF <<action.targetRow, action.targetCol>> \notin
            getLegalTargets(action.card, gs.boardChips, player.teamIndex,
                            gs.lockedCells, gs.lastRemovedCell)
       THEN Invalid("Invalid target position")
  ELSE IF action.type = "play-two-eyed" /\ getJackType(action.card) # "two-eyed"
       THEN Invalid("That card is not a two-eyed jack")
  ELSE IF action.type = "play-one-eyed" /\ getJackType(action.card) # "one-eyed"
       THEN Invalid("That card is not a one-eyed jack")
  ELSE IF action.type = "play-normal" /\ getJackType(action.card) # "null"
       THEN Invalid("Use the correct jack action")
  ELSE Valid

\* PlayLegality without the test of the action type against the card type
PlayLegalityAnyKind(gs, player, action) ==
  IF gs.pendingDraw THEN Invalid("You must draw a card to complete your turn")
  ELSE IF ~Includes(player.hand, action.card) THEN Invalid("You don't have that card")
  ELSE IF <<action.targetRow, action.targetCol>> \notin
            getLegalTargets(action.card, gs.boardChips, player.teamIndex,
                            gs.lockedCells, gs.lastRemovedCell)
       THEN Invalid("Invalid target position")
  ELSE Valid

PlayLegality(gs, player, action) ==
  IF gs.pendingDraw THEN Invalid("You must draw a card to complete your turn")
  ELSE IF ~Includes(player.hand, action.card) THEN Invalid("You don't have that card")
  ELSE IF <<action.targetRow, action.targetCol>> \notin
            getLegalTargets(action.card, gs.boardChips, player.teamIndex,
                            gs.lockedCells, gs.lastRemovedCell)
       THEN Invalid("Invalid target position")
  ELSE IF action.type = "play-two-eyed" /\ getJackType(action.card) # "two-eyed"
       THEN Invalid("That card is not a two-eyed jack")
  ELSE IF action.type = "play-one-eyed" /\ getJackType(action.card) # "one-eyed"
       THEN Invalid("That card is not a one-eyed jack")
  ELSE IF action.type = "play-normal" /\ getJackType(action.card) # "null"
       THEN Invalid("Use the correct jack action")
  ELSE Valid

\* ReplaceDeadLegality without the test of deadCardReplacedThisTurn
ReplaceDeadLegalityAgain(gs, player, action) ==
  IF ~Includes(player.hand, action.card) THEN Invalid("You don't have that card")
  ELSE IF ~isDeadCard(action.card, gs.boardChips) THEN Invalid("That card is not dead")
  ELSE Valid

ReplaceDeadLegality(gs, player, action) ==
  IF gs.deadCardReplacedThisTurn
  THEN Invalid("You can only replace one dead card per turn")
  ELSE IF ~Includes(player.hand, action.card) THEN Invalid("You don't have that card")
  ELSE IF ~isDeadCard(action.card, gs.boardChips) THEN Invalid("That card is not dead")
  ELSE Valid

\* isLegalMove without the test of the turn
isLegalMoveAnySeat(gs, playerId, action) ==
  IF playerId \notin Seats(gs) THEN Invalid("Player not found")
  ELSE IF action.type = "draw"
       THEN (IF ~gs.pendingDraw THEN Invalid("You must play a card first") ELSE Valid)
  ELSE IF action.type = "replace-dead"
       THEN ReplaceDeadLegality(gs, gs.players[playerId], action)
  ELSE IF action.type \in PlayTypes
       THEN PlayLegality(gs, gs.players[playerId], action)
  ELSE Invalid("Unknown action type")

isLegalMove(gs, playerId, action) ==
  IF playerId \notin Seats(gs) THEN Invalid("Player not found")
  ELSE IF gs.currentPlayerIndex # playerId THEN Invalid("Not your turn")
  ELSE IF action.type = "draw"
       THEN (IF ~gs.pendingDraw THEN Invalid("You must play a card first") ELSE Valid)
  ELSE IF action.type = "replace-dead"
       THEN ReplaceDeadLegality(gs, gs.players[playerId], action)
  ELSE IF action.type \in PlayTypes
       THEN PlayLegality(gs, gs.players[playerId], action)
  ELSE Invalid("Unknown action type")

-----------------------------------------------------------------------------
(* Stalemate resolver: rules/engine.ts *)

Teams(gs) == 0..(gs.config.teamCount - 1)

\* the line of `length` cells from the start cell, or <<>> (null) when it leaves the board
getLineOfN(startRow, startCol, dRow, dCol, length) ==
  IF \E i \in 0..(length - 1) :
        ~isValidPosition(startRow + i * dRow, startCol + i * dCol)
  THEN <<>>
  ELSE [i \in 1..length |-> <<startRow + (i - 1) * dRow, startCol + (i - 1) * dCol>>]

\* canCompleteLineAsSequence taking a chip of another team for removable unless locked
canCompleteLineAsSequenceGenerous(line, boardChips, teamIndex, lockedCells, sequencesCompleted, allLockedCells) ==
  LET nonCorner == {i \in 1..Len(line) : ~isCorner(line[i][1], line[i][2])}
      blocked == \E i \in nonCorner :
                    /\ boardChips[line[i]] # None /\ boardChips[line[i]] # teamIndex
                    /\ isCellLocked(allLockedCells, line[i][1], line[i][2])
      overlapWithPrevious ==
        Cardinality({i \in nonCorner : cellKey(line[i][1], line[i][2]) \in lockedCells})
  IN IF blocked THEN FALSE
     ELSE IF sequencesCompleted > 0 /\ overlapWithPrevious > 1 THEN FALSE
     ELSE IF overlapWithPrevious >= Cardinality(nonCorner) THEN FALSE
     ELSE TRUE

canCompleteLineAsSequence(line, boardChips, teamIndex, lockedCells, sequencesCompleted, allLockedCells) ==
  LET nonCorner == {i \in 1..Len(line) : ~isCorner(line[i][1], line[i][2])}
      blocked == \E i \in nonCorner :
                    boardChips[line[i]] # None /\ boardChips[line[i]] # teamIndex
      overlapWithPrevious ==
        Cardinality({i \in nonCorner : cellKey(line[i][1], line[i][2]) \in lockedCells})
      alreadyLockedCells == overlapWithPrevious
  IN IF blocked THEN FALSE
     ELSE IF sequencesCompleted > 0 /\ overlapWithPrevious > 1 THEN FALSE
     ELSE IF alreadyLockedCells >= Cardinality(nonCorner) THEN FALSE
     ELSE TRUE

\* canTeamCompleteSequence with both loops over the start cell beginning at 1
canTeamCompleteSequenceFromOne(boardChips, teamIndex, lockedCells, sequencesCompleted, allLockedCells, sequenceLength) ==
  \E d \in 1..Len(DIRECTIONS) : \E startRow \in Rows \ {0} : \E startCol \in Rows \ {0} :
     LET line == getLineOfN(startRow, startCol, DIRECTIONS[d][1], DIRECTIONS[d][2],
                            sequenceLength)
     IN /\ line # <<>>
        /\ canCompleteLineAsSequence(line, boardChips, teamIndex, lockedCells,
                                     sequencesCompleted, allLockedCells)

\* canTeamCompleteSequence looking along the rows only
canTeamCompleteSequenceRowsOnly(boardChips, teamIndex, lockedCells, sequencesCompleted, allLockedCells, sequenceLength) ==
  \E startRow \in Rows : \E startCol \in Rows :
     LET line == getLineOfN(startRow, startCol, DIRECTIONS[1][1], DIRECTIONS[1][2],
                            sequenceLength)
     IN /\ line # <<>>
        /\ canCompleteLineAsSequence(line, boardChips, teamIndex, lockedCells,
                                     sequencesCompleted, allLockedCells)

canTeamCompleteSequence(boardChips, teamIndex, lockedCells, sequencesCompleted, allLockedCells, sequenceLength) ==
  \E d \in 1..Len(DIRECTIONS) : \E startRow \in Rows : \E startCol \in Rows :
     LET line == getLineOfN(startRow, startCol, DIRECTIONS[d][1], DIRECTIONS[d][2],
                            sequenceLength)
     IN /\ line # <<>>
        /\ canCompleteLineAsSequence(line, boardChips, teamIndex, lockedCells,
                                     sequencesCompleted, allLockedCells)

NoStalemate ==
  [isStalemate |-> FALSE, winnerTeamIndex |-> None, reason |-> "", sequenceCounts |-> <<>>]

Max(S) == CHOOSE x \in S : \A y \in S : y <= x
Min(S) == CHOOSE x \in S : \A y \in S : x <= y

\* timestamps[maxSequences - 1] || Infinity
TimeToReachMax(gs, teamIndex, maxSequences) ==
  LET timestamps == gs.sequenceTimestamps[teamIndex]
  IN IF maxSequences <= Len(timestamps) /\ timestamps[maxSequences] # 0
     THEN timestamps[maxSequences] ELSE Infinity

\* the tie broken by seat order alone: the last of the tied teams
FirstToReachLast(gs, tied, maxSequences, earliestTime, winnerIndex) == Max(tied)

\* the loop over the tied teams, by increasing index, keeping the strictly earliest
RECURSIVE FirstToReach(_, _, _, _, _)
FirstToReach(gs, tied, maxSequences, earliestTime, winnerIndex) ==
  IF tied = {} THEN winnerIndex
  ELSE LET t == Min(tied)
           time == TimeToReachMax(gs, t, maxSequences)
       IN IF time < earliestTime
          THEN FirstToReach(gs, tied \ {t}, maxSequences, time, t)
          ELSE FirstToReach(gs, tied \ {t}, maxSequences, earliestTime, winnerIndex)

checkStalemate(gs) ==
  LET sequenceCounts == [i \in 1..gs.config.teamCount |-> gs.sequencesCompleted[i - 1]]
      canAnyTeamScore ==
        \E teamIndex \in Teams(gs) :
           /\ gs.sequencesCompleted[teamIndex] < gs.config.sequencesToWin
           /\ canTeamCompleteSequence(gs.boardChips, teamIndex, gs.lockedCells[teamIndex],
                                      gs.sequencesCompleted[teamIndex], gs.lockedCells,
                                      gs.config.sequenceLength)
      maxSequences == Max({gs.sequencesCompleted[t] : t \in Teams(gs)})
      teamsWithMax == {t \in Teams(gs) : gs.sequencesCompleted[t] = maxSequences}
  IN IF canAnyTeamScore THEN NoStalemate
     ELSE IF maxSequences = 0
     THEN [isStalemate |-> TRUE, winnerTeamIndex |-> 0, reason |-> "highest_count",
           sequenceCounts |-> sequenceCounts]
     ELSE IF Cardinality(teamsWithMax) = 1
     THEN [isStalemate |-> TRUE, winnerTeamIndex |-> Min(teamsWithMax),
           reason |-> "highest_count", sequenceCounts |-> sequenceCounts]
     ELSE [isStalemate |-> TRUE,
           winnerTeamIndex |-> FirstToReach(gs, teamsWithMax, maxSequences, Infinity,
                                            Min(teamsWithMax)),
           reason |-> "first_to_reach", sequenceCounts |-> sequenceCounts]

-----------------------------------------------------------------------------
(* Move application: rules/engine.ts *)

NoAction == [type |-> "null", card |-> "null", targetRow |-> None, targetCol |-> None]

\* { success: false, error }
Failure(error) ==
  [success |-> FALSE, error |-> error, action |-> NoAction, playerId |-> None,
   newSequences |-> <<>>, gameOver |-> FALSE, winnerTeamIndex |-> None,
   stalemate |-> NoStalemate]

\* { success: true, action, playerId }
Success(action, playerId) ==
  [success |-> TRUE, error |-> "", action |-> action, playerId |-> playerId,
   newSequences |-> <<>>, gameOver |-> FALSE, winnerTeamIndex |-> None,
   stalemate |-> NoStalemate]

\* "if the deck is empty, reshuffle the discard piles into it; draw a card into the
\* player's hand if there is one": the players and the deck afterwards
\* const card = drawCard(deck); if (card) player.hand.push(card)
DrawInto(players, playerId, drawn) ==
  [players |-> IF drawn.card # "null"
               THEN [players EXCEPT ![playerId].hand = Append(@, drawn.card)]
               ELSE players,
   deck |-> drawn.deck]

\* RefillAndDraw with no reshuffle: an empty deck gives no card
RefillAndDrawNoRefill(gs, players, playerId, seed) ==
  DrawInto(players, playerId, drawCard(gs.deck))

RefillAndDraw(gs, players, playerId, seed) ==
  IF Len(gs.deck) = 0
  THEN DrawInto([p \in DOMAIN players |-> [players[p] EXCEPT !.discardPile = <<>>]],
                playerId,
                drawCard(reshuffleDiscards(
                           [i \in 1..gs.config.playerCount |-> players[i - 1].discardPile],
                           seed)))
  ELSE DrawInto(players, playerId, drawCard(gs.deck))

\* the end of the draw branch: the stalemate result, if there is one, ends the game
resolveStalemate(ended, playerId, action, stalemateResult) ==
  IF ended.phase = "playing" /\ stalemateResult.isStalemate
     /\ stalemateResult.winnerTeamIndex # None
  THEN [state |-> [ended EXCEPT !.winnerTeamIndex = stalemateResult.winnerTeamIndex,
                                !.phase = "finished"],
        result |-> [Success(action, playerId) EXCEPT
                      !.gameOver = TRUE,
                      !.winnerTeamIndex = stalemateResult.winnerTeamIndex,
                      !.stalemate = stalemateResult]]
  ELSE [state |-> ended, result |-> Success(action, playerId)]

\* endTurn with no stalemate check: the turn simply passes on
endTurnUnchecked(ended, playerId, action) ==
  [state |-> ended, result |-> Success(action, playerId)]

\* "Check for stalemate after each turn ends", on the state with the turn ended
endTurn(ended, playerId, action) ==
  resolveStalemate(ended, playerId, action,
                   IF ended.phase = "playing" THEN checkStalemate(ended) ELSE NoStalemate)

\* turnEnded advancing the turn without wrapping around the table
turnEndedNoWrap(gs, after) ==
  [gs EXCEPT !.players = after.players,
             !.deck = after.deck,
             !.pendingDraw = FALSE,
             !.deadCardReplacedThisTurn = FALSE,
             !.lastRemovedCell = NoCell,
             !.currentPlayerIndex = gs.currentPlayerIndex + 1]

\* turnEnded leaving deadCardReplacedThisTurn as it is
turnEndedKeepingReplaced(gs, after) ==
  [gs EXCEPT !.players = after.players,
             !.deck = after.deck,
             !.pendingDraw = FALSE,
             !.lastRemovedCell = NoCell,
             !.currentPlayerIndex = (gs.currentPlayerIndex + 1) % gs.config.playerCount]

\* the state with the card drawn (players and deck of `after`) and the turn passed on
turnEnded(gs, after) ==
  [gs EXCEPT !.players = after.players,
             !.deck = after.deck,
             !.pendingDraw = FALSE,
             !.deadCardReplacedThisTurn = FALSE,
             !.lastRemovedCell = NoCell,
             !.currentPlayerIndex = (gs.currentPlayerIndex + 1) % gs.config.playerCount]

applyDraw(gs, playerId, action, seed) ==
  endTurn(turnEnded(gs, RefillAndDraw(gs, gs.players, playerId, seed)), playerId, action)

\* the players with the card moved from the player's hand to the player's discard pile
Discard(players, playerId, card) ==
  [players EXCEPT
     ![playerId].hand = Splice(@, IndexOf(players[playerId].hand, card)),
     ![playerId].discardPile = Append(@, card)]

\* replaced setting pendingDraw as a play does
replacedPending(gs, after) ==
  [gs EXCEPT !.players = after.players,
             !.deck = after.deck,
             !.pendingDraw = TRUE,
             !.deadCardReplacedThisTurn = TRUE]

\* the state with the replacement drawn (players and deck of `after`)
replaced(gs, after) ==
  [gs EXCEPT !.players = after.players,
             !.deck = after.deck,
             !.deadCardReplacedThisTurn = TRUE]

applyReplaceDead(gs, playerId, action, seed) ==
  [state |-> replaced(gs, RefillAndDraw(gs, Discard(gs.players, playerId, action.card),
                                        playerId, seed)),
   result |-> Success(action, playerId)]

\* commit recording no timestamp for the sequence
commitUnstamped(placed, playerId, action, now, teamIndex, sequence, newCount, needed) ==
  [state |-> [placed EXCEPT
                !.lockedCells = lockSequenceCells(@, sequence),
                !.sequencesCompleted[teamIndex] = newCount,
                !.completedSequences = Append(@, sequence),
                !.winnerTeamIndex = IF newCount >= needed THEN teamIndex ELSE @,
                !.phase = IF newCount >= needed THEN "finished" ELSE @],
   result |-> [Success(action, playerId) EXCEPT
                 !.newSequences = <<sequence>>,
                 !.gameOver = newCount >= needed,
                 !.winnerTeamIndex = IF newCount >= needed THEN teamIndex ELSE None]]

\* the state and the result with `sequence` committed for the team: cells locked, count
\* raised, timestamp recorded, and the game won when the count reaches `needed`
commit(placed, playerId, action, now, teamIndex, sequence, newCount, needed) ==
  [state |-> [placed EXCEPT
                !.lockedCells = lockSequenceCells(@, sequence),
                !.sequencesCompleted[teamIndex] = newCount,
                !.sequenceTimestamps[teamIndex] = Append(@, now),
                !.completedSequences = Append(@, sequence),
                !.winnerTeamIndex = IF newCount >= needed THEN teamIndex ELSE @,
                !.phase = IF newCount >= needed THEN "finished" ELSE @],
   result |-> [Success(action, playerId) EXCEPT
                 !.newSequences = <<sequence>>,
                 !.gameOver = newCount >= needed,
                 !.winnerTeamIndex = IF newCount >= needed THEN teamIndex ELSE None]]

\* commit asking for more sequences than sequencesToWin
commitStrict(placed, playerId, action, now, teamIndex, newSequences) ==
  IF Len(newSequences) > 0
  THEN commit(placed, playerId, action, now, teamIndex, newSequences[1],
              placed.sequencesCompleted[teamIndex] + 1, placed.config.sequencesToWin + 1)
  ELSE [state |-> placed, result |-> Success(action, playerId)]

\* commit taking every sequence detected: all of them locked, counted and reported
commitEvery(placed, playerId, action, now, teamIndex, newSequences) ==
  IF Len(newSequences) > 0
  THEN [state |-> [placed EXCEPT
                     !.lockedCells =
                        [@ EXCEPT ![teamIndex] =
                           @ \cup UNION {{c \in CellsOf(newSequences[i].cells) :
                                            c \notin CORNER_POSITIONS} :
                                           i \in 1..Len(newSequences)}],
                     !.sequencesCompleted[teamIndex] = @ + Len(newSequences),
                     !.sequenceTimestamps[teamIndex] = Append(@, now),
                     !.completedSequences = @ \o newSequences,
                     !.winnerTeamIndex =
                        IF placed.sequencesCompleted[teamIndex] + Len(newSequences)
                             >= placed.config.sequencesToWin
                        THEN teamIndex ELSE @,
                     !.phase =
                        IF placed.sequencesCompleted[teamIndex] + Len(newSequences)
                             >= placed.config.sequencesToWin
                        THEN "finished" ELSE @],
        result |-> [Success(action, playerId) EXCEPT
                      !.newSequences = newSequences,
                      !.gameOver = placed.sequencesCompleted[teamIndex] + Len(newSequences)
                                     >= placed.config.sequencesToWin,
                      !.winnerTeamIndex =
                         IF placed.sequencesCompleted[teamIndex] + Len(newSequences)
                              >= placed.config.sequencesToWin
                         THEN teamIndex ELSE None]]
  ELSE [state |-> placed, result |-> Success(action, playerId)]

\* if (newSequences.length > 0): take only the first sequence detected
commitFirst(placed, playerId, action, now, teamIndex, newSequences) ==
  IF Len(newSequences) > 0
  THEN commit(placed, playerId, action, now, teamIndex, newSequences[1],
              placed.sequencesCompleted[teamIndex] + 1, placed.config.sequencesToWin)
  ELSE [state |-> placed, result |-> Success(action, playerId)]

\* the chip on the target cell, then the check for new sequences through it
placeChip(gs, playerId, action, now, teamIndex) ==
  commitFirst([gs EXCEPT !.boardChips[<<action.targetRow, action.targetCol>>] = teamIndex],
              playerId, action, now, teamIndex,
              detectNewSequences(
                [gs.boardChips EXCEPT ![<<action.targetRow, action.targetCol>>] = teamIndex],
                action.targetRow, action.targetCol, teamIndex,
                gs.lockedCells[teamIndex], gs.sequencesCompleted[teamIndex],
                gs.config.sequencesToWin, gs.config.sequenceLength))

\* the chip placement of a play-normal / play-two-eyed, with the sequence commit
applyPlacement(gs, playerId, action, now) ==
  placeChip(gs, playerId, action, now, gs.players[playerId].teamIndex)

\* applyRemoval that does not record the cell it has emptied
applyRemovalUnrecorded(gs, playerId, action) ==
  [state |-> [gs EXCEPT !.boardChips[<<action.targetRow, action.targetCol>>] = None],
   result |-> Success(action, playerId)]

\* the chip removal of a play-one-eyed
applyRemoval(gs, playerId, action) ==
  [state |-> [gs EXCEPT !.boardChips[<<action.targetRow, action.targetCol>>] = None,
                        !.lastRemovedCell = <<action.targetRow, action.targetCol>>],
   result |-> Success(action, playerId)]

\* gameState.pendingDraw = true, after the action is executed
setPendingDraw(executed) ==
  [state |-> [executed.state EXCEPT !.pendingDraw = TRUE], result |-> executed.result]

\* execute setting pendingDraw after a placement only
executeRemovalFree(discarded, playerId, action, now) ==
  IF action.type = "play-one-eyed"
  THEN applyRemoval(discarded, playerId, action)
  ELSE setPendingDraw(applyPlacement(discarded, playerId, action, now))

\* the action executed on the state with the card discarded
execute(discarded, playerId, action, now) ==
  setPendingDraw(IF action.type = "play-one-eyed"
                 THEN applyRemoval(discarded, playerId, action)
                 ELSE applyPlacement(discarded, playerId, action, now))

applyPlay(gs, playerId, action, now) ==
  execute([gs EXCEPT !.players = Discard(gs.players, playerId, action.card)],
          playerId, action, now)

\* validated with the card taken out of the hand before the validation is read
validatedSplicingFirst(gs, playerId, action, seed, now, validation) ==
  IF validation.valid
  THEN (IF action.type = "draw" THEN applyDraw(gs, playerId, action, seed)
        ELSE IF action.type = "replace-dead"
        THEN applyReplaceDead(gs, playerId, action, seed)
        ELSE applyPlay(gs, playerId, action, now))
  ELSE IF /\ playerId \in Seats(gs)
          /\ action.type # "draw"
          /\ Includes(gs.players[playerId].hand, action.card)
  THEN [state |-> [gs EXCEPT !.players[playerId].hand =
                               Splice(@, IndexOf(gs.players[playerId].hand, action.card))],
        result |-> Failure(validation.error)]
  ELSE [state |-> gs, result |-> Failure(validation.error)]

\* the move applied when the validation has passed, the failure when it has not
validated(gs, playerId, action, seed, now, validation) ==
  IF ~validation.valid THEN [state |-> gs, result |-> Failure(validation.error)]
  ELSE IF action.type = "draw" THEN applyDraw(gs, playerId, action, seed)
  ELSE IF action.type = "replace-dead" THEN applyReplaceDead(gs, playerId, action, seed)
  ELSE applyPlay(gs, playerId, action, now)

\* seed: the random source of a reshuffle; now: the reading of Date.now()
applyMove(gs, playerId, action, seed, now) ==
  validated(gs, playerId, action, seed, now, isLegalMove(gs, playerId, action))

-----------------------------------------------------------------------------
(* Game construction: gameState.ts, and the positions a run starts from *)

HAND_SIZES == [n \in {2, 3, 4, 6, 8, 9, 10, 12} |->
                 CASE n = 2 -> 7 [] n \in {3, 4} -> 6 [] n = 6 -> 5
                   [] n \in {8, 9} -> 4 [] OTHER -> 3]

getTeamCount(playerCount) ==
  IF playerCount <= 3 THEN playerCount
  ELSE IF playerCount % 2 = 0 THEN 2
  ELSE IF playerCount % 3 = 0 THEN 3
  ELSE 2

createGameConfig(playerCount, sequencesToWin, sequenceLength) ==
  [playerCount |-> playerCount, teamCount |-> getTeamCount(playerCount),
   sequencesToWin |-> sequencesToWin, sequenceLength |-> sequenceLength,
   handSize |-> HAND_SIZES[playerCount]]

\* assignTeams: seat i plays for team i % teamCount
assignTeams(seat, teamCount) == seat % teamCount

\* the sequence without one copy of each card of `used`
RECURSIVE Without(_, _)
Without(cards, used) ==
  IF Len(used) = 0 THEN cards
  ELSE IF Includes(cards, Head(used))
       THEN Without(Splice(cards, IndexOf(cards, Head(used))), Tail(used))
       ELSE Without(cards, Tail(used))

\* row-major order of cells
Before(a, b) == a[1] < b[1] \/ (a[1] = b[1] /\ a[2] < b[2])

RECURSIVE InOrder(_)
InOrder(cells) ==
  IF cells = {} THEN <<>>
  ELSE LET first == CHOOSE a \in cells : \A b \in cells \ {a} : Before(a, b)
       IN <<first>> \o InOrder(cells \ {first})

\* the cards a player discarded to place chips on `cells`: the printed card, or a
\* two-eyed jack for a cell of `wild`
CardsPlayed(cells, wild) ==
  LET order == InOrder(cells)
  IN [i \in 1..Len(order) |-> IF order[i] \in wild THEN "JC" ELSE PrintedAt(order[i])]

\* A position of a game in progress.  o.placedBy[p + 1] are the cells holding the chips
\* player p placed, o.completed the sequences committed so far (o.stamps their
\* timestamps per team), o.hands the hands, o.deckHead the next cards of the deck;
\* the rest of the deck is what is left of the double deck.
Setup(o) ==
  LET config == createGameConfig(o.playerCount, o.sequencesToWin, o.sequenceLength)
      seats == 0..(o.playerCount - 1)
      teams == 0..(config.teamCount - 1)
      piles == [i \in 1..o.playerCount |-> CardsPlayed(o.placedBy[i], o.wild) \o o.discarded[i]]
      held == Concat(o.hands, 1) \o Concat(piles, 1) \o o.deckHead
      lines == {i \in 1..Len(o.completed) : TRUE}
  IN [phase |-> "playing",
      config |-> config,
      players |-> [p \in seats |->
                     [teamIndex |-> assignTeams(p, config.teamCount),
                      hand |-> o.hands[p + 1],
                      discardPile |-> piles[p + 1]]],
      currentPlayerIndex |-> o.currentPlayerIndex,
      deck |-> o.deckHead \o Without(createDeck, held),
      boardChips |-> [cell \in Cells |->
                        IF \E p \in seats : cell \in o.placedBy[p + 1]
                        THEN assignTeams(CHOOSE p \in seats : cell \in o.placedBy[p + 1],
                                         config.teamCount)
                        ELSE None],
      lockedCells |-> [t \in teams |->
                         UNION {{c \in CellsOf(o.completed[i].cells) : c \notin CORNER_POSITIONS} :
                                  i \in {k \in lines : o.completed[k].teamIndex = t}}],
      sequencesCompleted |-> [t \in teams |->
                                Cardinality({k \in lines : o.completed[k].teamIndex = t})],
      completedSequences |-> o.completed,
      deadCardReplacedThisTurn |-> FALSE,
      pendingDraw |-> FALSE,
      lastRemovedCell |-> NoCell,
      winnerTeamIndex |-> None,
      turnTimeLimit |-> o.turnTimeLimit,
      sequenceTimestamps |-> [t \in teams |-> o.stamps[t + 1]]]

Line(cells, teamIndex) == [cells |-> cells, teamIndex |-> teamIndex]

\* Opening: the state initializeGame returns for two players, one deal of the shuffle.
Opening ==
  [playerCount |-> 2, sequencesToWin |-> 2, sequenceLength |-> 5, turnTimeLimit |-> 0,
   currentPlayerIndex |-> 1,
   placedBy |-> <<{}, {}>>, wild |-> {}, discarded |-> <<<<>>, <<>>>>,
   completed |-> <<>>, stamps |-> <<<<>>, <<>>>>,
   hands |-> << <<"2S", "3S", "JD", "QD", "KD", "AD", "TD">>,
                <<"2S", "6C", "JH", "QC", "KC", "AC", "TC">> >>,
   deckHead |-> <<"4S", "5C">>,
   focus |-> {<<0, 0>>, <<0, 1>>, <<8, 6>>},
   cards |-> {"2S", "JD", "JH"}]

\* TwoLines: team 0 is one chip short of a line on each half of the top row.
TwoLines ==
  [playerCount |-> 2, sequencesToWin |-> 2, sequenceLength |-> 5, turnTimeLimit |-> 30,
   currentPlayerIndex |-> 0,
   placedBy |-> << {<<0, 1>>, <<0, 2>>, <<0, 3>>, <<0, 6>>, <<0, 7>>, <<0, 8>>},
                   {<<2, 1>>, <<2, 2>>, <<3, 1>>, <<4, 1>>, <<5, 1>>, <<8, 6>>} >>,
   wild |-> {}, discarded |-> <<<<>>, <<>>>>,
   completed |-> <<>>, stamps |-> <<<<>>, <<>>>>,
   hands |-> << <<"5S", "QH", "6S", "JD", "QD", "KD", "AD">>,
                <<"JH", "KH", "QC", "KC", "AC", "2H", "3H">> >>,
   deckHead |-> <<"6S", "JS">>,
   focus |-> {<<0, 0>>, <<0, 3>>, <<0, 4>>, <<0, 5>>, <<0, 6>>},
   cards |-> {"5S", "6S", "JH"}]

\* Teammates: four players in two teams, one turn each played; player 0 holds a
\* one-eyed jack and faces chips of the teammate and of both opponents.
Teammates ==
  [playerCount |-> 4, sequencesToWin |-> 2, sequenceLength |-> 5, turnTimeLimit |-> 0,
   currentPlayerIndex |-> 0,
   placedBy |-> << {<<1, 1>>}, {<<2, 1>>}, {<<1, 2>>}, {<<2, 2>>} >>,
   wild |-> {}, discarded |-> <<<<>>, <<>>, <<>>, <<>>>>,
   completed |-> <<>>, stamps |-> <<<<>>, <<>>>>,
   hands |-> << <<"JH", "3C", "QD", "KD", "AD", "TD">>,
                <<"JS", "QC", "KC", "AC", "TC", "9C">>,
                <<"2H", "3H", "4H", "5H", "6H", "7H">>,
                <<"8H", "9H", "TH", "QH", "KH", "AH">> >>,
   deckHead |-> <<"4S", "5S">>,
   focus |-> {<<1, 1>>, <<1, 2>>, <<2, 1>>, <<1, 3>>},
   cards |-> {"JH", "3C"}]

\* the cells <<r, c>> with r + 2c = 1 (mod 5): one cell of every line of five, no corner
Lattice == {cell \in Cells : (cell[1] + 2 * cell[2]) % 5 = 1}

\* Endgame: team 0 holds a chip on every line of five of the board, has one sequence
\* committed (top row, from the corner) and is one chip short of a second one (bottom
\* row, from the corner); team 1 can complete no line any more.
Endgame ==
  [playerCount |-> 2, sequencesToWin |-> 2, sequenceLength |-> 5, turnTimeLimit |-> 30,
   currentPlayerIndex |-> 0,
   placedBy |-> << Lattice \cup {<<0, 1>>, <<0, 2>>, <<0, 4>>, <<9, 2>>, <<9, 3>>},
                   {<<4, 4>>, <<5, 5>>, <<6, 6>>} >>,
   wild |-> {}, discarded |-> <<<<>>, <<>>>>,
   completed |-> << Line(<< <<0, 0>>, <<0, 1>>, <<0, 2>>, <<0, 3>>, <<0, 4>> >>, 0) >>,
   stamps |-> <<<<1>>, <<>>>>,
   hands |-> << <<"TD", "QH", "6S", "JD", "QD", "9H", "AD">>,
                <<"JH", "KH", "QC", "KC", "AC", "2H", "3H">> >>,
   deckHead |-> <<"6S", "JS">>,
   focus |-> {<<9, 4>>, <<9, 9>>, <<4, 4>>},
   cards |-> {"TD", "JH"}]

\* the cells <<r, c>> with r + 2c = 0 (mod 5), the corner <<0, 0>> left out
Lattice0 == {cell \in Cells : (cell[1] + 2 * cell[2]) % 5 = 0} \ CORNER_POSITIONS

\* the lines a team has completed in a Blocked position: the top row from the corner
\* <<0, 0>> for team 0, the bottom row up to the corner <<9, 9>> for team 1
TopRow == << <<0, 0>>, <<0, 1>>, <<0, 2>>, <<0, 3>>, <<0, 4>> >>
BottomRow == << <<9, 5>>, <<9, 6>>, <<9, 7>>, <<9, 8>>, <<9, 9>> >>

\* the next cards of the deck once the cards of the chips and `first` are out of it
Dealt(chips, first, n) ==
  SubSeq(Without(createDeck, CardsPlayed(chips, {}) \o <<first>>), 1, n)

\* the chips of the two players in a Blocked position: each team holds a chip on every
\* line of five the other team has not locked out for itself, but for the diagonal from
\* the corner <<0, 0>>, which team 0 can still complete until a chip stands on <<1, 1>>
BlockedChips(k0, k1) ==
  << (Lattice \ (IF k1 = 1 THEN {<<9, 6>>} ELSE {}))
       \cup (IF k0 = 1 THEN {<<0, 1>>, <<0, 2>>, <<0, 4>>} ELSE {})
       \cup (IF k1 = 1 THEN {<<7, 6>>, <<8, 5>>} ELSE {}),
     Lattice0
       \cup {<<2, 0>>}
       \cup (IF k0 = 1 THEN {} ELSE {<<0, 2>>})
       \cup (IF k1 = 1 THEN {<<9, 5>>, <<9, 6>>, <<9, 7>>} ELSE {}) >>

\* Blocked: team 0 has k0 and team 1 has k1 completed sequences (0 or 1 each), committed
\* at the times of `stamps` and listed in that order; player 1 holds the card of
\* <<1, 1>>, the last cell that keeps a line open for anyone.
Blocked(k0, k1, stamps) ==
  [playerCount |-> 2, sequencesToWin |-> 2, sequenceLength |-> 5, turnTimeLimit |-> 30,
   currentPlayerIndex |-> 1,
   placedBy |-> BlockedChips(k0, k1),
   wild |-> {}, discarded |-> <<<<>>, <<>>>>,
   completed |-> IF k0 = 1 /\ k1 = 1 /\ stamps[2][1] < stamps[1][1]
                 THEN <<Line(BottomRow, 1), Line(TopRow, 0)>>
                 ELSE (IF k0 = 1 THEN <<Line(TopRow, 0)>> ELSE <<>>)
                        \o (IF k1 = 1 THEN <<Line(BottomRow, 1)>> ELSE <<>>),
   stamps |-> stamps,
   hands |-> << SubSeq(Dealt(BlockedChips(k0, k1)[1] \cup BlockedChips(k0, k1)[2],
                             PrintedAt(<<1, 1>>), 14), 7, 13),
                <<PrintedAt(<<1, 1>>)>>
                  \o SubSeq(Dealt(BlockedChips(k0, k1)[1] \cup BlockedChips(k0, k1)[2],
                                  PrintedAt(<<1, 1>>), 14), 1, 6) >>,
   deckHead |-> <<>>,
   focus |-> {<<1, 1>>},
   cards |-> {PrintedAt(<<1, 1>>)}]

\* Removable: the Blocked position with no sequence completed, and team 0 one chip
\* short of the diagonal from the corner <<0, 0>>; player 0 holds a one-eyed and a
\* two-eyed jack, player 1 the card of <<1, 1>>.
RemovableChips ==
  <<BlockedChips(0, 0)[1] \cup {<<3, 3>>, <<4, 4>>}, BlockedChips(0, 0)[2]>>

RemovableDealt ==
  SubSeq(Without(createDeck,
                 CardsPlayed(RemovableChips[1] \cup RemovableChips[2], {})
                   \o <<PrintedAt(<<1, 1>>), "JH", "JD">>), 1, 11)

Removable ==
  [playerCount |-> 2, sequencesToWin |-> 2, sequenceLength |-> 5, turnTimeLimit |-> 30,
   currentPlayerIndex |-> 1,
   placedBy |-> RemovableChips,
   wild |-> {}, discarded |-> <<<<>>, <<>>>>,
   completed |-> <<>>,
   stamps |-> <<<<>>, <<>>>>,
   hands |-> << <<"JH", "JD">> \o SubSeq(RemovableDealt, 7, 11),
                <<PrintedAt(<<1, 1>>)>> \o SubSeq(RemovableDealt, 1, 6) >>,
   deckHead |-> <<>>,
   focus |-> {<<1, 1>>, <<0, 1>>},
   cards |-> {PrintedAt(<<1, 1>>), "JH", "JD"}]

\* the room's setting when create-room names none; createRoom and updateRoomSettings
\* accept 2, 3 and 4 only
DEFAULT_SEQUENCES_TO_WIN == 2
SEQUENCES_TO_WIN_OPTIONS == {2, 3, 4}

\* ThreeTeams: three players, a team each, in a room with the default settings; four
\* turns each played; player 1 has completed the bottom row from the corner, and
\* player 0 is one chip short of a line in row 2.
ThreeTeamsChips ==
  << {<<2, 2>>, <<2, 3>>, <<2, 4>>, <<2, 5>>},
     {<<9, 1>>, <<9, 2>>, <<9, 3>>, <<9, 4>>},
     {<<4, 7>>, <<5, 7>>, <<6, 8>>, <<7, 8>>} >>

ThreeTeams ==
  [playerCount |-> 3, sequencesToWin |-> DEFAULT_SEQUENCES_TO_WIN, sequenceLength |-> 5,
   turnTimeLimit |-> 30,
   currentPlayerIndex |-> 0,
   placedBy |-> ThreeTeamsChips,
   wild |-> {}, discarded |-> <<<<>>, <<>>, <<>>>>,
   completed |-> << Line(<< <<9, 0>>, <<9, 1>>, <<9, 2>>, <<9, 3>>, <<9, 4>> >>, 1) >>,
   stamps |-> <<<<>>, <<2>>, <<>>>>,
   hands |-> << <<PrintedAt(<<2, 6>>)>>
                  \o Dealt(UNION {ThreeTeamsChips[i] : i \in 1..3}, PrintedAt(<<2, 6>>), 5),
                SubSeq(Dealt(UNION {ThreeTeamsChips[i] : i \in 1..3},
                             PrintedAt(<<2, 6>>), 17), 6, 11),
                SubSeq(Dealt(UNION {ThreeTeamsChips[i] : i \in 1..3},
                             PrintedAt(<<2, 6>>), 17), 12, 17) >>,
   deckHead |-> <<>>,
   focus |-> {<<2, 6>>},
   cards |-> {PrintedAt(<<2, 6>>)}]

\* the cells of a team on a board where no line holds more than two chips of a team in
\* a row: team 0 where 2r + c = 0 or 1 (mod 4), team 1 elsewhere; no corner
Pattern(team) ==
  {cell \in Cells \ CORNER_POSITIONS : ((2 * cell[1] + cell[2]) % 4 < 2) <=> (team = 0)}

\* DeckSpent: the 90th turn of a game of two is over and the deck is empty: 45 chips a
\* player, six cells empty, no sequence; every card played is on the discard piles.
\* The chip on <<1, 1>> was placed with a two-eyed jack, so the card 5C player 0 holds
\* is dead; player 0 also holds the card of the empty cell <<2, 2>>.
DeckSpentEmpty == {<<2, 2>>, <<2, 3>>, <<5, 5>>, <<4, 8>>, <<7, 2>>, <<7, 3>>}

DeckSpent ==
  [playerCount |-> 2, sequencesToWin |-> 2, sequenceLength |-> 5, turnTimeLimit |-> 30,
   currentPlayerIndex |-> 0,
   placedBy |-> <<Pattern(0) \ DeckSpentEmpty, Pattern(1) \ DeckSpentEmpty>>,
   wild |-> {<<1, 1>>}, discarded |-> <<<<>>, <<>>>>,
   completed |-> <<>>, stamps |-> <<<<>>, <<>>>>,
   hands |-> << <<"2D", "5C", "JD", "JD", "JH", "JS", "3D">>,
                <<"JC", "JH", "JS", "3H", "TC", "QC", "7H">> >>,
   deckHead |-> <<>>,
   focus |-> {<<2, 2>>},
   cards |-> {"2D", "5C"}]

Positions ==
  <<Opening, TwoLines, Teammates, Endgame, Removable, ThreeTeams, DeckSpent,
    Blocked(0, 0, <<<<>>, <<>>>>), Blocked(1, 0, <<<<1>>, <<>>>>),
    Blocked(0, 1, <<<<>>, <<1>>>>), Blocked(1, 1, <<<<1>>, <<2>>>>),
    Blocked(1, 1, <<<<2>>, <<1>>>>), Blocked(1, 1, <<<<1>>, <<1>>>>)>>

-----------------------------------------------------------------------------
(* Turn timer and socket handlers: index.ts *)

\* The timer of the room: the entry of roomTimers (none, a handle whose callback is
\* scheduled, or one whose callback has run), the seat whose turn the handle was
\* scheduled for, and the callbacks still scheduled that no entry refers to.
NoTimer == [entry |-> "none", turn |-> None, orphans |-> 0]

\* clearTimeout on the entry's handle (a no-op on a fired one), then delete the entry
clearTurnTimer(t) ==
  IF t.entry # "none" THEN [t EXCEPT !.entry = "none", !.turn = None] ELSE t

\* startTurnTimer without the call of clearTurnTimer: the entry is overwritten
startTurnTimerNoClear(gs, t) ==
  IF gs.turnTimeLimit = 0 THEN t
  ELSE [entry |-> "live", turn |-> gs.currentPlayerIndex,
        orphans |-> t.orphans + (IF t.entry = "live" THEN 1 ELSE 0)]

\* a callback still scheduled when its entry is overwritten is referred to by no entry
startTurnTimer(gs, t) ==
  IF gs.turnTimeLimit = 0 THEN t
  ELSE LET cleared == clearTurnTimer(t)
       IN [entry |-> "live", turn |-> gs.currentPlayerIndex,
           orphans |-> cleared.orphans + (IF cleared.entry = "live" THEN 1 ELSE 0)]

\* handleTurnTimeout leaving lastRemovedCell as it is
handleTurnTimeoutKeepingRemoved(gs, t) ==
  IF gs.phase # "playing" THEN [state |-> gs, timer |-> t]
  ELSE LET skipped == [gs EXCEPT !.deadCardReplacedThisTurn = FALSE,
                                 !.pendingDraw = FALSE,
                                 !.currentPlayerIndex =
                                    (gs.currentPlayerIndex + 1) % gs.config.playerCount]
       IN [state |-> skipped, timer |-> startTurnTimer(skipped, t)]

\* handleTurnTimeout ending the turn as a draw does, with a card drawn
handleTurnTimeoutDrawing(gs, t) ==
  IF gs.phase # "playing" THEN [state |-> gs, timer |-> t]
  ELSE [state |-> turnEnded(gs, RefillAndDraw(gs, gs.players, gs.currentPlayerIndex, 0)),
        timer |-> startTurnTimer(gs, t)]

\* handleTurnTimeout that schedules no timer for the next turn
handleTurnTimeoutOnce(gs, t) ==
  IF gs.phase # "playing" THEN [state |-> gs, timer |-> t]
  ELSE [state |-> [gs EXCEPT !.deadCardReplacedThisTurn = FALSE,
                             !.pendingDraw = FALSE,
                             !.lastRemovedCell = NoCell,
                             !.currentPlayerIndex =
                                (gs.currentPlayerIndex + 1) % gs.config.playerCount],
        timer |-> t]

\* handleTurnTimeout, run by a callback that has just fired (timer state t)
handleTurnTimeout(gs, t) ==
  IF gs.phase # "playing" THEN [state |-> gs, timer |-> t]
  ELSE LET skipped == [gs EXCEPT !.deadCardReplacedThisTurn = FALSE,
                                 !.pendingDraw = FALSE,
                                 !.lastRemovedCell = NoCell,
                                 !.currentPlayerIndex =
                                    (gs.currentPlayerIndex + 1) % gs.config.playerCount]
       IN [state |-> skipped, timer |-> startTurnTimer(skipped, t)]

\* restartTimer leaving the timer of the turn that has ended as it is
restartTimerKeepingOld(gs, t, applied) == t

\* if (turnChanged && !result.gameOver) startTurnTimer(roomCode)
restartTimer(gs, t, applied) ==
  IF /\ applied.result.success
     /\ applied.state.currentPlayerIndex # gs.currentPlayerIndex
     /\ ~applied.result.gameOver
  THEN startTurnTimer(applied.state, t) ELSE t

\* if (result.gameOver && result.winnerTeamIndex !== undefined) clearTurnTimer(roomCode)
clearTimerOnGameOver(result, t) ==
  IF result.success /\ result.gameOver /\ result.winnerTeamIndex # None
  THEN clearTurnTimer(t) ELSE t

\* what the handler does once applyMove has returned `applied`
afterMove(gs, t, applied) ==
  [state |-> applied.state, result |-> applied.result,
   timer |-> clearTimerOnGameOver(applied.result, restartTimer(gs, t, applied))]

\* socket.on('game-action'): the move, then the timer of the next turn or of the game end
onGameAction(gs, t, playerId, action, seed, now) ==
  afterMove(gs, t, applyMove(gs, playerId, action, seed, now))

NoResult == Failure("")

\* the reading of Date.now(): not before the latest timestamp recorded
LatestStamp(gs) ==
  Max({1} \cup UNION {CellsOf(gs.sequenceTimestamps[t]) : t \in Teams(gs)})

Readings(gs) == {LatestStamp(gs), Min({LatestStamp(gs) + 1, MaxClock})}

\* the random source matters to a reshuffle only
Seeds(gs) == IF Len(gs.deck) = 0 THEN 0..MaxSeed ELSE {0}

\* the ids requests come from: every seat, and one socket of no seat
PlayerIds(gs) == 0..gs.config.playerCount

Position == Positions[scn.position]

GameAction(playerId, action) ==
  \E seed \in Seeds(gameState) : \E now \in Readings(gameState) :
    \E handled \in {onGameAction(gameState, timer, playerId, action, seed, now)} :
      /\ gameState' = handled.state
      /\ timer' = handled.timer
      /\ last' = [op |-> "game-action", result |-> handled.result]
      /\ playedSinceDraw' = IF ~handled.result.success THEN playedSinceDraw
                             ELSE IF action.type = "draw" THEN FALSE
                             ELSE IF action.type \in PlayTypes THEN TRUE
                             ELSE playedSinceDraw
      /\ scn' = [scn EXCEPT !.moves = IF handled.result.success /\ action.type # "draw"
                                      THEN @ + 1 ELSE @]

Draw ==
  \E playerId \in PlayerIds(gameState) : GameAction(playerId, DrawAction)

ReplaceDead ==
  /\ scn.moves < MaxMoves
  /\ \E playerId \in PlayerIds(gameState) : \E card \in Position.cards :
       GameAction(playerId, ReplaceDeadAction(card))

Play ==
  /\ scn.moves < MaxMoves
  /\ \E playerId \in PlayerIds(gameState) : \E type \in PlayTypes :
       \E card \in Position.cards : \E target \in Position.focus :
         GameAction(playerId, PlayAction(type, card, target[1], target[2]))

TurnTimeout ==
  /\ timer.entry = "live" \/ timer.orphans > 0
  /\ LET fired == IF timer.entry = "live" THEN [timer EXCEPT !.entry = "fired"]
                  ELSE [timer EXCEPT !.orphans = @ - 1]
     IN \E handled \in {handleTurnTimeout(gameState, fired)} :
        /\ gameState' = handled.state
        /\ timer' = handled.timer
        /\ last' = [op |-> "turn-timeout", result |-> NoResult]
        /\ UNCHANGED <<playedSinceDraw, scn>>

\* socket.on('start-game'): the game is set up and the first turn's timer started
Init ==
  \E i \in 1..Len(Positions) :
    /\ gameState = Setup(Positions[i])
    /\ timer = startTurnTimer(Setup(Positions[i]), NoTimer)
    /\ last = [op |-> "start-game", result |-> NoResult]
    /\ playedSinceDraw = FALSE
    /\ scn = [position |-> i, moves |-> 0]

Next == Draw \/ ReplaceDead \/ Play \/ TurnTimeout

Spec == Init /\ [][Next]_vars

\* The same game with the timer running: a callback that setTimeout has scheduled and
\* clearTimeout has not cancelled is run by the event loop in the end.  Nothing is
\* assumed of the players, who may send requests or none.
SpecTimer == Init /\ [][Next]_vars /\ WF_vars(TurnTimeout)

-----------------------------------------------------------------------------
(* The detector on single lines: a game in which one team has placed every chip of a
   line but one, nothing else is on the board, and the team's player places the last *)

\* the lengths of a sequence a game may be configured with
SequenceLengths == {4, 5}

\* the `length` cells from `start` in direction d
LineCells(start, d, length) ==
  [i \in 1..length |-> <<start[1] + (i - 1) * d[1], start[2] + (i - 1) * d[2]>>]

\* every line of `length` cells of the board, in every direction of DIRECTIONS
LinesOf(length) ==
  {line \in {LineCells(start, DIRECTIONS[k], length) : start \in Cells, k \in 1..4} :
     \A i \in 1..length : isValidPosition(line[i][1], line[i][2])}

\* the game: the chips of `line` but the one of `target` placed by the player of seat
\* `seat`, who holds the card printed on `target`; corners hold no chip
LineGame(line, target, seat, hands) ==
  [playerCount |-> 2, sequencesToWin |-> 2, sequenceLength |-> Len(line),
   turnTimeLimit |-> 0, currentPlayerIndex |-> seat,
   placedBy |-> [p \in 1..2 |-> IF p = seat + 1
                                THEN CellsOf(line) \ (CORNER_POSITIONS \cup {target})
                                ELSE {}],
   wild |-> {}, discarded |-> <<<<>>, <<>>>>,
   completed |-> <<>>, stamps |-> <<<<>>, <<>>>>,
   hands |-> [p \in 1..2 |-> IF p = seat + 1
                             THEN <<PrintedAt(target)>> \o SubSeq(hands, 1, 6)
                             ELSE SubSeq(hands, 7, 13)],
   deckHead |-> <<>>,
   focus |-> {target},
   cards |-> {PrintedAt(target)}]

\* the cards dealt besides the one printed on `target`: the next cards of the deck
\* once the cards of the chips are out of it
DealtFor(line, target) ==
  SubSeq(Without(createDeck,
                 CardsPlayed(CellsOf(line) \ (CORNER_POSITIONS \cup {target}), {})
                   \o <<PrintedAt(target)>>),
         1, 13)

InitDetector ==
  \E length \in SequenceLengths : \E line \in LinesOf(length) :
    \E target \in CellsOf(line) \ CORNER_POSITIONS : \E seat \in 0..1 :
      /\ gameState = Setup(LineGame(line, target, seat, DealtFor(line, target)))
      /\ timer = NoTimer
      /\ last = [op |-> "start-game", result |-> NoResult]
      /\ playedSinceDraw = FALSE
      /\ scn = [position |-> 0, moves |-> 0, line |-> line, target |-> target]

\* the player places the last chip of the line
PlaceLast ==
  /\ scn.moves = 0
  /\ GameAction(gameState.currentPlayerIndex,
                PlayAction("play-normal", PrintedAt(scn.target),
                           scn.target[1], scn.target[2]))

NextDetector == PlaceLast

SpecDetector == InitDetector /\ [][NextDetector]_vars

-----------------------------------------------------------------------------
(* Sanity of the positions *)

CardsHeld(gs) ==
  gs.deck \o Concat([i \in 1..gs.config.playerCount |->
                       gs.players[i - 1].hand \o gs.players[i - 1].discardPile], 1)

Count(cards, card) == Cardinality({i \in 1..Len(cards) : cards[i] = card})

DoubleDeck ==
  \A c \in CellsOf(CardCodes) : Count(CardsHeld(gameState), c) = 2

-----------------------------------------------------------------------------
(* Properties *)

\* the requests explored: every action kind, over the cards and targets of the position
Requests ==
  {DrawAction}
    \cup {ReplaceDeadAction(card) : card \in Position.cards}
    \cup {PlayAction(type, card, target[1], target[2]) :
            type \in PlayTypes, card \in Position.cards, target \in Position.focus}

PlayRequests == {action \in Requests : action.type \in PlayTypes}

\* the last handler run was a game-action that applyMove accepted / rejected
Accepted == last.op = "game-action" /\ last.result.success
Rejected == last.op = "game-action" /\ ~last.result.success

AcceptedPlay == Accepted /\ last.result.action.type \in PlayTypes
AcceptedDraw == Accepted /\ last.result.action.type = "draw"

\* C1: in every reachable state, for every player id and every action that isLegalMove
\* finds invalid, applyMove returns success = false with a non-empty error string and
\* the GameState it leaves is equal, field by field, to the GameState it was given.
C1_IllegalMoveChangesNothing ==
  \A playerId \in PlayerIds(gameState) : \A action \in Requests :
    \A seed \in Seeds(gameState) : \A now \in Readings(gameState) :
      ~isLegalMove(gameState, playerId, action).valid =>
        LET applied == applyMove(gameState, playerId, action, seed, now)
        IN /\ ~applied.result.success
           /\ applied.result.error # ""
           /\ applied.state = gameState

\* C1 witness: a play the current player made with a card of the hand on a cell that is
\* no legal target has been answered with a failure, in the middle of a game.
C1_Witness ==
  /\ Rejected
  /\ last.result.error = "Invalid target position"
  /\ scn.moves > 0

\* C2: in every reachable state, every request of a seated player other than the one at
\* currentPlayerIndex is invalid with "Not your turn" and applyMove fails with that
\* error, whatever the action and whatever pendingDraw and deadCardReplacedThisTurn are.
C2_NotYourTurn ==
  \A playerId \in Seats(gameState) : \A action \in Requests :
    \A seed \in Seeds(gameState) : \A now \in Readings(gameState) :
      playerId # gameState.currentPlayerIndex =>
        /\ isLegalMove(gameState, playerId, action) = Invalid("Not your turn")
        /\ applyMove(gameState, playerId, action, seed, now).result
             = Failure("Not your turn")

\* C2 witness: a request was answered "Not your turn" while a draw was pending, so the
\* same draw request of the current player would have been accepted.
C2_Witness ==
  /\ Rejected
  /\ last.result.error = "Not your turn"
  /\ gameState.pendingDraw

\* the turn flag pendingDraw rules the play-* and draw requests of every player
PendingDrawRules ==
  \A playerId \in PlayerIds(gameState) :
    \A seed \in Seeds(gameState) : \A now \in Readings(gameState) :
      /\ gameState.pendingDraw =>
           \A action \in PlayRequests :
             ~applyMove(gameState, playerId, action, seed, now).result.success
      /\ ~gameState.pendingDraw =>
           ~applyMove(gameState, playerId, DrawAction, seed, now).result.success

\* C3 (amended): every accepted play-* leaves pendingDraw true; while pendingDraw is true
\* every play-* of every player is rejected, and while it is false every draw is
\* rejected; pendingDraw goes back to false only by an accepted draw or by a turn
\* timeout, after which the next player may play although no draw was applied.
C3_PendingDraw ==
  /\ [] PendingDrawRules
  /\ [][/\ AcceptedPlay' => gameState'.pendingDraw
        /\ (gameState.pendingDraw /\ ~gameState'.pendingDraw) =>
              (AcceptedDraw' \/ last'.op = "turn-timeout")]_vars

\* C3 witness: a play-* request was rejected because a draw is pending
C3_Witness ==
  /\ Rejected
  /\ last.result.error = "You must draw a card to complete your turn"
  /\ gameState.pendingDraw

\* C3 as stated: once a play-* is accepted, no play-* of any player is accepted before a
\* draw is applied.  (Violated: a turn timeout ends the turn without a draw.)
C3_NoPlayBeforeDraw ==
  [][playedSinceDraw => ~AcceptedPlay']_vars

\* C4 as stated: while pendingDraw is true every replace-dead request is rejected, also
\* one that names a dead card of the current player's hand when no replacement has been
\* made this turn.  (Violated: the replace-dead branch of isLegalMove does not read
\* pendingDraw.)
C4_NoReplaceWhilePendingDraw ==
  \A playerId \in PlayerIds(gameState) : \A card \in Position.cards :
    \A seed \in Seeds(gameState) : \A now \in Readings(gameState) :
      gameState.pendingDraw =>
        ~applyMove(gameState, playerId, ReplaceDeadAction(card), seed, now).result.success

\* a turn timeout that found the game in the playing phase (handleTurnTimeout returns
\* at once in any other phase)
TimedOut == last'.op = "turn-timeout" /\ gameState.phase = "playing"

NextSeat == (gameState.currentPlayerIndex + 1) % gameState.config.playerCount

\* C5: currentPlayerIndex is always a seat index; a step changes it only if the step is
\* an accepted draw or a turn timeout, and every accepted draw and every turn timeout of
\* a game in the playing phase sets it to (currentPlayerIndex + 1) mod playerCount;
\* accepted play-* and replace-dead requests and all rejected requests leave it unchanged.
C5_TurnAdvance ==
  /\ [](gameState.currentPlayerIndex \in Seats(gameState))
  /\ [][/\ gameState'.currentPlayerIndex # gameState.currentPlayerIndex =>
              (AcceptedDraw' \/ TimedOut)
        /\ (AcceptedDraw' \/ TimedOut) => gameState'.currentPlayerIndex = NextSeat
        /\ (last'.op = "game-action" /\ ~AcceptedDraw') =>
              gameState'.currentPlayerIndex = gameState.currentPlayerIndex]_vars

\* C5 witness: the draw of the player at the last seat has passed the turn to seat 0
C5_Witness ==
  /\ AcceptedDraw
  /\ Position.currentPlayerIndex = Position.playerCount - 1
  /\ scn.moves = 1
  /\ gameState.currentPlayerIndex = 0

\* the cells in some team's locked-cell set
LockedAnywhere == UNION {gameState.lockedCells[t] : t \in Teams(gameState)}

\* no one-eyed jack has a locked cell among its targets, whoever plays it
NoRemovalOfLocked ==
  \A cell \in LockedAnywhere : \A card \in ONE_EYED_JACKS :
    /\ \A p \in Seats(gameState) :
         cell \notin getLegalTargets(card, gameState.boardChips,
                                     gameState.players[p].teamIndex,
                                     gameState.lockedCells, gameState.lastRemovedCell)
    /\ \A playerId \in PlayerIds(gameState) :
         ~isLegalMove(gameState, playerId,
                      PlayAction("play-one-eyed", card, cell[1], cell[2])).valid

\* C6: a cell key in a team's lockedCells set is in that set after every step, the chip
\* on the cell is the same after every step, and in every reachable state no
\* play-one-eyed on a cell of any team's lockedCells set is legal for any player.
C6_LockedCellsPermanent ==
  /\ [] NoRemovalOfLocked
  /\ [][\A t \in Teams(gameState) : \A cell \in gameState.lockedCells[t] :
          /\ cell \in gameState'.lockedCells[t]
          /\ gameState'.boardChips[cell] = gameState.boardChips[cell]]_vars

\* C6 witness: the current player holds a one-eyed jack, faces a locked chip of another
\* team, and has had a play refused for its target
C6_Witness ==
  LET player == gameState.players[gameState.currentPlayerIndex]
  IN /\ Rejected
     /\ last.result.error = "Invalid target position"
     /\ ~gameState.pendingDraw
     /\ Includes(player.hand, "JH")
     /\ \E cell \in Position.focus \cap LockedAnywhere :
          gameState.boardChips[cell] # player.teamIndex

\* the targets the rules give a one-eyed jack played for team teamIndex
OneEyedTargets(teamIndex) ==
  {cell \in Cells :
     /\ cell \notin CORNER_POSITIONS
     /\ gameState.boardChips[cell] \notin {None, teamIndex}
     /\ cell \notin LockedAnywhere}

\* C7: for every player the legal targets of a one-eyed jack are exactly the non-corner
\* cells with a chip of another team that are in no team's locked-cell set; a
\* play-one-eyed is legal only on such a cell (never on a corner, an empty cell, a chip
\* of the actor's team, teammates' chips included, or a locked cell), and it is legal on
\* every such cell when the current player holds the jack and no draw is pending.
C7_OneEyedTargets ==
  \A p \in Seats(gameState) : \A card \in ONE_EYED_JACKS :
    LET player == gameState.players[p]
        ready == /\ p = gameState.currentPlayerIndex
                 /\ ~gameState.pendingDraw
                 /\ Includes(player.hand, card)
    IN /\ getLegalTargets(card, gameState.boardChips, player.teamIndex,
                          gameState.lockedCells, gameState.lastRemovedCell)
            = OneEyedTargets(player.teamIndex)
       /\ \A cell \in Cells :
            LET legal == isLegalMove(gameState, p,
                           PlayAction("play-one-eyed", card, cell[1], cell[2])).valid
            IN /\ legal => cell \in OneEyedTargets(player.teamIndex)
               /\ (ready /\ cell \in OneEyedTargets(player.teamIndex)) => legal

\* C7 witness: in a game of four players in two teams a one-eyed jack has removed a
\* chip while a chip of the actor's teammate and one of the actor stand untouched
C7_Witness ==
  /\ AcceptedPlay
  /\ last.result.action.type = "play-one-eyed"
  /\ gameState.config.playerCount = 4
  /\ LET team == gameState.players[last.result.playerId].teamIndex
     IN \E p \in Seats(gameState) \ {last.result.playerId} :
          /\ gameState.players[p].teamIndex = team
          /\ \E cell \in Position.placedBy[p + 1] : gameState.boardChips[cell] = team

\* the targets the rules give a two-eyed jack
TwoEyedTargets ==
  {cell \in Cells :
     /\ cell \notin CORNER_POSITIONS
     /\ gameState.boardChips[cell] = None
     /\ cell # gameState.lastRemovedCell}

\* C8: for every player the legal targets of a two-eyed jack are exactly the non-corner
\* cells that are empty and are not lastRemovedCell; a play-two-eyed on a corner or on
\* an occupied cell is rejected, and one on a cell of that set is legal when the current
\* player holds the jack and no draw is pending.
C8_TwoEyedTargets ==
  \A p \in Seats(gameState) : \A card \in TWO_EYED_JACKS :
    LET player == gameState.players[p]
        ready == /\ p = gameState.currentPlayerIndex
                 /\ ~gameState.pendingDraw
                 /\ Includes(player.hand, card)
    IN /\ getLegalTargets(card, gameState.boardChips, player.teamIndex,
                          gameState.lockedCells, gameState.lastRemovedCell)
            = TwoEyedTargets
       /\ \A cell \in Cells :
            LET legal == isLegalMove(gameState, p,
                           PlayAction("play-two-eyed", card, cell[1], cell[2])).valid
            IN /\ (cell \in CORNER_POSITIONS \/ gameState.boardChips[cell] # None)
                    => ~legal
               /\ legal => cell \in TwoEyedTargets
               /\ (ready /\ cell \in TwoEyedTargets) => legal

\* C8 witness: a two-eyed jack has been played and the actor's chip stands on its target
C8_Witness ==
  /\ AcceptedPlay
  /\ last.result.action.type = "play-two-eyed"
  /\ gameState.boardChips[<<last.result.action.targetRow, last.result.action.targetCol>>]
       = gameState.players[last.result.playerId].teamIndex

\* no placement on the cell a chip was just removed from
NoPlacementOnRemoved ==
  gameState.lastRemovedCell # NoCell =>
    \A playerId \in PlayerIds(gameState) : \A card \in CellsOf(CardCodes) :
      \A type \in {"play-two-eyed", "play-normal"} :
        ~isLegalMove(gameState, playerId,
                     PlayAction(type, card, gameState.lastRemovedCell[1],
                                gameState.lastRemovedCell[2])).valid

\* C9: lastRemovedCell is null right after every accepted draw and every turn timeout
\* of a game in the playing phase, and in every reachable state in which it is set no
\* play-two-eyed and no play-normal on that cell is legal, for any player and card.
C9_LastRemovedCell ==
  /\ [] NoPlacementOnRemoved
  /\ [][(AcceptedDraw' \/ TimedOut) => gameState'.lastRemovedCell = NoCell]_vars

\* C9 witness: a chip has just been removed, the cell is empty, and a player holds a
\* two-eyed jack
C9_Witness ==
  /\ gameState.lastRemovedCell # NoCell
  /\ gameState.boardChips[gameState.lastRemovedCell] = None
  /\ \E p \in Seats(gameState) : \E card \in TWO_EYED_JACKS :
       Includes(gameState.players[p].hand, card)

\* the team of the player whose turn it is
ActingTeam == gameState.players[gameState.currentPlayerIndex].teamIndex

\* the step is an accepted placement that completes the acting team's last sequence
WinningPlay ==
  /\ AcceptedPlay'
  /\ last'.result.action.type \in {"play-normal", "play-two-eyed"}
  /\ gameState'.sequencesCompleted[ActingTeam] > gameState.sequencesCompleted[ActingTeam]
  /\ gameState'.sequencesCompleted[ActingTeam] >= gameState.config.sequencesToWin

\* C10: an accepted play-normal or play-two-eyed that raises the acting team's
\* sequencesCompleted to at least config.sequencesToWin sets, in the same step, phase to
\* finished and winnerTeamIndex to the acting team and reports gameOver with that
\* winner; no request handled once the phase is finished reports a stalemate, and a
\* draw accepted then leaves phase and winnerTeamIndex as they are and reports no
\* gameOver.
C10_WinEndsGame ==
  [][/\ WinningPlay =>
          /\ gameState'.phase = "finished"
          /\ gameState'.winnerTeamIndex = ActingTeam
          /\ last'.result.gameOver
          /\ last'.result.winnerTeamIndex = ActingTeam
     /\ (gameState.phase = "finished" /\ last'.op = "game-action") =>
          ~last'.result.stalemate.isStalemate
     /\ (gameState.phase = "finished" /\ AcceptedDraw') =>
          /\ gameState'.phase = "finished"
          /\ gameState'.winnerTeamIndex = gameState.winnerTeamIndex
          /\ ~last'.result.gameOver]_vars

\* C10 witness: the winner has drawn after the winning play, on a board on which the
\* stalemate check would find that no team can score
C10_Witness ==
  /\ gameState.phase = "finished"
  /\ AcceptedDraw
  /\ gameState.sequencesCompleted[gameState.winnerTeamIndex]
       >= gameState.config.sequencesToWin
  /\ checkStalemate(gameState).isStalemate

\* the non-corner cells of a sequence, which lockSequenceCells adds to the locked set
LockedBy(sequence) == {c \in CellsOf(sequence.cells) : c \notin CORNER_POSITIONS}

\* the step commits nothing: no count and no locked set changes
NothingCommitted ==
  /\ gameState'.sequencesCompleted = gameState.sequencesCompleted
  /\ gameState'.lockedCells = gameState.lockedCells
  /\ gameState'.completedSequences = gameState.completedSequences

\* the step commits exactly `sequence` for `team`
OneCommitted(team, sequence) ==
  /\ sequence.teamIndex = team
  /\ gameState'.sequencesCompleted =
       [gameState.sequencesCompleted EXCEPT ![team] = @ + 1]
  /\ gameState'.lockedCells =
       [gameState.lockedCells EXCEPT ![team] = @ \cup LockedBy(sequence)]
  /\ gameState'.completedSequences = Append(gameState.completedSequences, sequence)

\* C11: every handled request reports at most one new sequence; with none reported no
\* count and no locked set changes, with one reported the acting team's count grows by
\* exactly one, no other team's count changes and exactly the non-corner cells of that
\* sequence are added to the acting team's locked set; a team's first sequence in a game
\* that needs two leaves the count at 1 and reports no gameOver.
C11_OneSequencePerMove ==
  [][last'.op = "game-action" =>
       /\ Len(last'.result.newSequences) <= 1
       /\ Len(last'.result.newSequences) = 0 => NothingCommitted
       /\ Len(last'.result.newSequences) = 1 =>
            /\ AcceptedPlay'
            /\ OneCommitted(ActingTeam, last'.result.newSequences[1])
            /\ (gameState.sequencesCompleted[ActingTeam] = 0
                  /\ gameState.config.sequencesToWin = 2) =>
                 /\ gameState'.sequencesCompleted[ActingTeam] = 1
                 /\ ~last'.result.gameOver
                 /\ gameState'.phase = gameState.phase]_vars

\* the locked cells and the count the acting team had before the last sequence of
\* completedSequences was committed
LockedBefore(team) ==
  UNION {LockedBy(gameState.completedSequences[i]) :
           i \in {k \in 1..(Len(gameState.completedSequences) - 1) :
                    gameState.completedSequences[k].teamIndex = team}}

\* C11 witness: the chip just placed completed two accepted windows at once, and one
\* sequence was committed
C11_Witness ==
  /\ AcceptedPlay
  /\ Len(last.result.newSequences) = 1
  /\ LET team == gameState.players[last.result.playerId].teamIndex
     IN Len(detectNewSequences(gameState.boardChips,
                               last.result.action.targetRow, last.result.action.targetCol,
                               team, LockedBefore(team),
                               gameState.sequencesCompleted[team] - 1,
                               gameState.config.sequencesToWin,
                               gameState.config.sequenceLength)) >= 2

\* the board with a chip of `team` on `cell`
WithChip(team, cell) == [gameState.boardChips EXCEPT ![cell] = team]

\* the cells a chip of `team` may be detected through: its own chips and the empty
\* cells, corners left out
DetectionCells(team) ==
  {cell \in Cells : cell \notin CORNER_POSITIONS
                     /\ gameState.boardChips[cell] \in {None, team}}

\* the candidate windows through `cell` once a chip of `team` stands on it
Candidates(team, cell) ==
  getSequencesThroughCell(WithChip(team, cell), cell[1], cell[2], team,
                          gameState.config.sequenceLength)

\* what detectNewSequences returns for that chip in the current state
Detected(team, cell) ==
  detectNewSequences(WithChip(team, cell), cell[1], cell[2], team,
                     gameState.lockedCells[team], gameState.sequencesCompleted[team],
                     gameState.config.sequencesToWin, gameState.config.sequenceLength)

\* the non-corner cells of the window that the team has locked already
SharedCells(window, team) ==
  (CellsOf(window.cells) \ CORNER_POSITIONS) \cap gameState.lockedCells[team]

\* the overlap rule as stated: not all locked or corner, at most one shared cell
WithinOverlapRule(window, team) ==
  /\ ~(CellsOf(window.cells) \subseteq gameState.lockedCells[team] \cup CORNER_POSITIONS)
  /\ Cardinality(SharedCells(window, team)) <= 1

\* C12: in every reachable state, for every team with at least one completed sequence
\* and every cell a chip of the team stands on or could be placed on, the windows
\* detectNewSequences returns are exactly the candidate windows that are not entirely
\* made of the team's locked cells and corners and hold at most one non-corner cell of
\* the team's locked set; adding the corners to the locked set changes no verdict of
\* isValidSequenceOverlap.
C12_OverlapRule ==
  \A team \in Teams(gameState) :
    gameState.sequencesCompleted[team] > 0 =>
      \A cell \in DetectionCells(team) :
        /\ {Detected(team, cell)[i].cells : i \in 1..Len(Detected(team, cell))}
             = {Candidates(team, cell)[i].cells :
                  i \in {k \in 1..Len(Candidates(team, cell)) :
                           WithinOverlapRule(Candidates(team, cell)[k], team)}}
        /\ \A i \in 1..Len(Candidates(team, cell)) :
             /\ isValidSequenceOverlap(Candidates(team, cell)[i],
                                       gameState.lockedCells[team])
                  = (Cardinality(SharedCells(Candidates(team, cell)[i], team)) <= 1)
             /\ isValidSequenceOverlap(Candidates(team, cell)[i],
                                       gameState.lockedCells[team] \cup CORNER_POSITIONS)
                  = isValidSequenceOverlap(Candidates(team, cell)[i],
                                           gameState.lockedCells[team])

\* C12 witness: a team with a completed sequence can place a chip that makes three
\* windows at once: one sharing two or more locked cells (rejected), one sharing
\* exactly one (accepted) and one that runs through a corner and shares none
C12_Witness ==
  \E team \in Teams(gameState) : \E cell \in Position.focus :
    /\ gameState.sequencesCompleted[team] > 0
    /\ gameState.boardChips[cell] = None
    /\ cell \notin CORNER_POSITIONS
    /\ \E i, j, k \in 1..Len(Candidates(team, cell)) :
         /\ Cardinality(SharedCells(Candidates(team, cell)[i], team)) >= 2
         /\ Cardinality(SharedCells(Candidates(team, cell)[j], team)) = 1
         /\ Cardinality(SharedCells(Candidates(team, cell)[k], team)) = 0
         /\ CellsOf(Candidates(team, cell)[k].cells) \cap CORNER_POSITIONS # {}
         /\ \E d \in 1..Len(Detected(team, cell)) :
              Detected(team, cell)[d] = Candidates(team, cell)[j]
         /\ \A d \in 1..Len(Detected(team, cell)) :
              Detected(team, cell)[d] # Candidates(team, cell)[i]

\* the line of the detector game holds no corner: sequenceLength chips make it
ExactLine == CellsOf(scn.line) \cap CORNER_POSITIONS = {}

\* the direction of the line, and the cells next to its two ends
LineDirection == <<scn.line[2][1] - scn.line[1][1], scn.line[2][2] - scn.line[1][2]>>
CellBefore == <<scn.line[1][1] - LineDirection[1], scn.line[1][2] - LineDirection[2]>>
CellAfter ==
  <<scn.line[Len(scn.line)][1] + LineDirection[1],
    scn.line[Len(scn.line)][2] + LineDirection[2]>>

\* no corner continues the line at either end
FreeEnds == CellBefore \notin CORNER_POSITIONS /\ CellAfter \notin CORNER_POSITIONS

\* the run the line makes with the corner that continues it
RunWithCorner ==
  (IF CellBefore \in CORNER_POSITIONS THEN <<CellBefore>> ELSE <<>>)
    \o scn.line
    \o (IF CellAfter \in CORNER_POSITIONS THEN <<CellAfter>> ELSE <<>>)

\* the sequence made of the cells of the line, for the acting team
LineSequence == [cells |-> scn.line, teamIndex |-> ActingTeam]

\* C13 (amended): in every direction and for every position of the last chip, when
\* exactly sequenceLength chips of one team make a line on an otherwise empty board with
\* nothing locked and nothing completed, and no corner continues the line,
\* detectNewSequences returns exactly one sequence, made of exactly those cells; when a
\* corner continues the line it returns every window of the run of sequenceLength + 1
\* cells that holds the last chip, two of them unless the last chip is the one farthest
\* from the corner.  The move commits one sequence in both cases.
C13_SingleLine ==
  ExactLine =>
    /\ scn.moves = 0 =>
         /\ FreeEnds => Detected(ActingTeam, scn.target) = <<LineSequence>>
         /\ ~FreeEnds =>
              Detected(ActingTeam, scn.target)
                = Windows(RunWithCorner, 0, scn.target, ActingTeam, Len(scn.line))
         /\ \E i \in 1..Len(Detected(ActingTeam, scn.target)) :
              Detected(ActingTeam, scn.target)[i] = LineSequence
         /\ Len(Detected(ActingTeam, scn.target))
              = IF FreeEnds \/ scn.target = (IF CellBefore \in CORNER_POSITIONS
                                             THEN scn.line[Len(scn.line)]
                                             ELSE scn.line[1])
                THEN 1 ELSE 2
    /\ scn.moves = 1 =>
         /\ Accepted
         /\ Len(last.result.newSequences) = 1
         /\ FreeEnds => last.result.newSequences = <<LineSequence>>

\* C13 witness: the last chip was placed in the middle of a diagonal line of five that
\* no corner continues, and the line was reported as the one new sequence
C13_Witness ==
  /\ scn.moves = 1
  /\ ExactLine /\ FreeEnds
  /\ Len(scn.line) = 5
  /\ LineDirection = <<1, -1>>
  /\ scn.target = scn.line[3]
  /\ last.result.newSequences = <<LineSequence>>

\* C13 as stated: exactly one sequence, made of the cells of the line, wherever the line
\* lies.  (Violated: a line next to a corner makes a run of sequenceLength + 1 cells
\* with it, and two windows of that run hold the last chip.)
C13_ExactlyOneSequence ==
  (ExactLine /\ scn.moves = 0) => Detected(ActingTeam, scn.target) = <<LineSequence>>

\* every corner counts as occupied by every team, on the current board
CornersWild ==
  \A corner \in CORNER_POSITIONS : \A team \in 0..2 :
    /\ gameState.boardChips[corner] = None
    /\ isCellOccupiedByTeam(gameState.boardChips, corner[1], corner[2], team)

\* C14: a line of sequenceLength cells that starts or ends at a corner, with the
\* sequenceLength - 1 other cells holding chips of one team (whichever team), is
\* returned by detectNewSequences as one sequence whose cells include the corner; the
\* move that places the last chip commits it and locks the chips, not the corner; every
\* corner counts as occupied by every team.
C14_CornersWild ==
  /\ CornersWild
  /\ ~ExactLine =>
       /\ scn.moves = 0 =>
            /\ Detected(ActingTeam, scn.target) = <<LineSequence>>
            /\ Cardinality({cell \in CellsOf(scn.line) :
                              WithChip(ActingTeam, scn.target)[cell] = ActingTeam})
                 = Len(scn.line) - 1
       /\ scn.moves = 1 =>
            /\ last.result.newSequences = <<LineSequence>>
            /\ \E corner \in CORNER_POSITIONS :
                 corner \in CellsOf(last.result.newSequences[1].cells)
            /\ gameState.sequencesCompleted[ActingTeam] = 1
            /\ gameState.lockedCells[ActingTeam] = CellsOf(scn.line) \ CORNER_POSITIONS

\* C14 witness: the player of the second team has placed the fourth chip of the
\* diagonal that ends at the corner (9,9), and the five cells were committed
C14_Witness ==
  /\ scn.moves = 1
  /\ Len(scn.line) = 5
  /\ scn.line[5] = <<9, 9>>
  /\ scn.line[1] = <<5, 5>>
  /\ ActingTeam = 1
  /\ Cardinality({cell \in Cells : gameState.boardChips[cell] = 1}) = 4
  /\ last.result.newSequences = <<LineSequence>>

\* the four jacks
Jacks == {"JS", "JH", "JD", "JC"}

\* the current board with a chip of `team` on every cell that is empty
FilledBy(team) ==
  [cell \in Cells |-> IF gameState.boardChips[cell] = None THEN team
                      ELSE gameState.boardChips[cell]]

\* C15: in every reachable state and for every card of the deck, isDeadCard is true
\* exactly when the card is no jack and every cell of the board printed with it holds a
\* chip, of whatever team; for a jack it is false on the current board and on the board
\* filled up with chips of either team.
C15_DeadCard ==
  /\ \A card \in CellsOf(CardCodes) :
       isDeadCard(card, gameState.boardChips)
         = (/\ card \notin Jacks
            /\ \A cell \in Cells :
                 BOARD_LAYOUT[cell[1] + 1][cell[2] + 1] = card =>
                   gameState.boardChips[cell] # None)
  /\ \A card \in Jacks : \A team \in Teams(gameState) :
       /\ card \in CellsOf(CardCodes)
       /\ ~isDeadCard(card, FilledBy(team))
  /\ \A card \in CellsOf(CardCodes) \ Jacks : \A team \in Teams(gameState) :
       isDeadCard(card, FilledBy(team))

\* C15 witness: the current player holds a card whose two cells hold chips of two
\* different teams, and isDeadCard says the card is dead
C15_Witness ==
  \E card \in Position.cards \ Jacks :
    /\ Includes(gameState.players[gameState.currentPlayerIndex].hand, card)
    /\ isDeadCard(card, gameState.boardChips)
    /\ \E a, b \in findCardPositions(card) :
         /\ gameState.boardChips[a] = ActingTeam
         /\ gameState.boardChips[b] \notin {None, ActingTeam}

AcceptedReplace == Accepted /\ last.result.action.type = "replace-dead"

\* once a dead card was replaced this turn, every replace-dead of the current player is
\* answered with the one-dead-card-per-turn error, whatever card it names
NoSecondReplace ==
  gameState.deadCardReplacedThisTurn =>
    \A card \in CellsOf(CardCodes) :
      \A seed \in Seeds(gameState) : \A now \in Readings(gameState) :
        /\ isLegalMove(gameState, gameState.currentPlayerIndex, ReplaceDeadAction(card))
             = Invalid("You can only replace one dead card per turn")
        /\ applyMove(gameState, gameState.currentPlayerIndex, ReplaceDeadAction(card),
                     seed, now).result
             = Failure("You can only replace one dead card per turn")

\* C16: a replace-dead is accepted only from the current player, when
\* deadCardReplacedThisTurn is false, the card is in the player's hand and the card is
\* dead on the board; it sets deadCardReplacedThisTurn and leaves the turn where it is;
\* the flag goes back to false only in a step that changes currentPlayerIndex, and
\* while it is true every replace-dead of the current player is rejected with the
\* one-dead-card-per-turn error: so at most one replace-dead succeeds in a turn.
C16_OneReplacePerTurn ==
  /\ [] NoSecondReplace
  /\ [][/\ AcceptedReplace' =>
              /\ ~gameState.deadCardReplacedThisTurn
              /\ last'.result.playerId = gameState.currentPlayerIndex
              /\ Includes(gameState.players[gameState.currentPlayerIndex].hand,
                          last'.result.action.card)
              /\ isDeadCard(last'.result.action.card, gameState.boardChips)
              /\ gameState'.deadCardReplacedThisTurn
              /\ gameState'.currentPlayerIndex = gameState.currentPlayerIndex
        /\ (gameState.deadCardReplacedThisTurn /\ ~gameState'.deadCardReplacedThisTurn)
              => gameState'.currentPlayerIndex # gameState.currentPlayerIndex]_vars

\* C16 witness: the current player has just replaced a dead card and the turn goes on
C16_Witness ==
  /\ AcceptedReplace
  /\ gameState.deadCardReplacedThisTurn
  /\ last.result.playerId = gameState.currentPlayerIndex
  /\ Len(gameState.players[gameState.currentPlayerIndex].discardPile) > 0

\* C17: a turn timeout handled while the phase is playing sets currentPlayerIndex to
\* the next seat (mod playerCount) and pendingDraw, deadCardReplacedThisTurn and
\* lastRemovedCell to their turn-start values, and changes nothing else of the game:
\* the deck, every hand and discard pile, the chips, the locked cells and the sequence
\* counts are as before, also when the player had played a card and not drawn; a
\* timeout handled in any other phase leaves the game state as it is.
C17_TimeoutFrame ==
  [][last'.op = "turn-timeout" =>
       IF gameState.phase = "playing"
       THEN /\ gameState' = [gameState EXCEPT !.currentPlayerIndex = NextSeat,
                                              !.pendingDraw = FALSE,
                                              !.deadCardReplacedThisTurn = FALSE,
                                              !.lastRemovedCell = NoCell]
            /\ gameState'.currentPlayerIndex # gameState.currentPlayerIndex
            /\ gameState'.deck = gameState.deck
            /\ gameState'.players = gameState.players
            /\ gameState'.boardChips = gameState.boardChips
            /\ gameState'.lockedCells = gameState.lockedCells
            /\ gameState'.sequencesCompleted = gameState.sequencesCompleted
       ELSE gameState' = gameState]_vars

\* C17 witness: the turn of a player who had removed a chip and not drawn has timed
\* out: the player holds one card less than the hand size, no draw is pending and
\* lastRemovedCell is cleared while the cell is still empty
C17_Witness ==
  /\ last.op = "turn-timeout"
  /\ gameState.phase = "playing"
  /\ playedSinceDraw
  /\ ~gameState.pendingDraw
  /\ gameState.lastRemovedCell = NoCell
  /\ \E p \in Seats(gameState) :
       /\ (p + 1) % gameState.config.playerCount = gameState.currentPlayerIndex
       /\ Len(gameState.players[p].hand) = gameState.config.handSize - 1
       /\ Len(gameState.players[p].discardPile) > 0
       /\ isDeadCard(gameState.players[p].discardPile[
                        Len(gameState.players[p].discardPile) - 1],
                      Setup(Position).boardChips)

\* the number of turn-timer callbacks scheduled and not yet run for the room
Pending == (IF timer.entry = "live" THEN 1 ELSE 0) + timer.orphans

\* C18: in every reachable state at most one turn-timer callback is pending for the
\* room; startTurnTimer on the current state leaves exactly one pending when the game
\* has a time limit, the one it has just scheduled, and a game whose turnTimeLimit is
\* 0 has no timer entry and no pending callback, and startTurnTimer schedules none.
C18_OnePendingTimer ==
  /\ Pending <= 1
  /\ timer.orphans = 0
  /\ gameState.turnTimeLimit # 0 =>
       startTurnTimer(gameState, timer)
         = [entry |-> "live", turn |-> gameState.currentPlayerIndex, orphans |-> 0]
  /\ gameState.turnTimeLimit = 0 =>
       /\ timer = NoTimer
       /\ startTurnTimer(gameState, timer) = timer

\* C18 witness: a draw has passed the turn in a game with a time limit while the timer
\* of the turn was still pending, and the timer of the next turn is the one pending
C18_Witness ==
  /\ AcceptedDraw
  /\ gameState.turnTimeLimit > 0
  /\ gameState.phase = "playing"
  /\ timer.entry = "live"
  /\ Pending = 1

\* C19 as stated: in every reachable state in which the phase is finished no turn-timer
\* callback is pending, whatever is submitted after the game has ended.  (Violated: the
\* draw of the winner is accepted after the winning play, passes the turn and reports no
\* gameOver, so the game-action handler starts the timer of the next turn.)
C19_NoTimerWhenFinished ==
  gameState.phase = "finished" => Pending = 0

\* the callback pending in a game in play was scheduled for the turn of the player
\* whose turn it is, and it is the only one
TimerOfCurrentTurn ==
  (gameState.phase = "playing" /\ Pending > 0) =>
    /\ timer.entry = "live"
    /\ timer.orphans = 0
    /\ timer.turn = gameState.currentPlayerIndex

\* every request of the player of seat p is refused in the state after the step with
\* "Not your turn", and changes nothing
LateMoveRefused(p) ==
  \A action \in Requests :
    \A seed \in Seeds(gameState') : \A now \in Readings(gameState') :
      applyMove(gameState', p, action, seed, now)
        = [state |-> gameState', result |-> Failure("Not your turn")]

\* C20: the handlers of a room run one after the other.  When the timeout of a
\* player's turn runs first, every move of that player handled next is refused with
\* "Not your turn" and changes nothing; when the player's draw runs first, the callback
\* scheduled for that turn is cancelled in the same step, and what is pending
\* afterwards, if anything, is the one callback scheduled for the next turn.  A callback
\* that ends a turn was scheduled for that very turn, and no step moves
\* currentPlayerIndex by more than one seat.
C20_TurnEndedOnce ==
  /\ [] TimerOfCurrentTurn
  /\ [][/\ TimedOut =>
              /\ timer.entry = "live"
              /\ timer.turn = gameState.currentPlayerIndex
              /\ gameState'.currentPlayerIndex = NextSeat
              /\ LateMoveRefused(gameState.currentPlayerIndex)
        /\ (AcceptedDraw' /\ timer.entry = "live") =>
              /\ timer.turn = gameState.currentPlayerIndex
              /\ gameState'.currentPlayerIndex = NextSeat
              /\ timer'.orphans = 0
              /\ timer'.entry \in {"none", "live"}
              /\ timer'.entry = "live" => timer'.turn = NextSeat
        /\ gameState'.currentPlayerIndex \in {gameState.currentPlayerIndex, NextSeat}]_vars

\* C20 witness: in a two-player game with a time limit a player has played a card, the
\* turn has timed out before the draw, and a request that came after the timeout, from
\* the only other seat than the current one, was refused with "Not your turn"
C20_Witness ==
  /\ Rejected
  /\ last.result.error = "Not your turn"
  /\ gameState.config.playerCount = 2
  /\ gameState.turnTimeLimit > 0
  /\ gameState.phase = "playing"
  /\ playedSinceDraw
  /\ ~gameState.pendingDraw
  /\ timer = [entry |-> "live", turn |-> gameState.currentPlayerIndex, orphans |-> 0]

\* no team below the win threshold can still complete a line on the board of gs
NoTeamCanScore(gs) ==
  \A teamIndex \in Teams(gs) :
     gs.sequencesCompleted[teamIndex] < gs.config.sequencesToWin
       => ~canTeamCompleteSequence(gs.boardChips, teamIndex, gs.lockedCells[teamIndex],
                                   gs.sequencesCompleted[teamIndex], gs.lockedCells,
                                   gs.config.sequenceLength)

\* the outcome of a draw that ended the game by the stalemate result r
EndedByStalemate(gs, result, r) ==
  /\ r.isStalemate
  /\ gs.phase = "finished"
  /\ gs.winnerTeamIndex = r.winnerTeamIndex
  /\ result.gameOver
  /\ result.winnerTeamIndex = r.winnerTeamIndex
  /\ result.stalemate = r

\* C21: every successful draw applied while the phase is playing runs the stalemate
\* check on the state with the card drawn and the turn passed on: if no team below the
\* win threshold can still complete a line, the same step sets the phase to finished
\* and winnerTeamIndex to the resolved winner and returns gameOver with the stalemate
\* detail; otherwise the phase stays playing, the winner is untouched and the result
\* carries neither gameOver nor a stalemate detail.
C21_StalemateAfterDraw ==
  [][(gameState.phase = "playing" /\ AcceptedDraw')
       => IF NoTeamCanScore(gameState')
          THEN EndedByStalemate(gameState', last'.result, checkStalemate(gameState'))
          ELSE /\ gameState'.phase = "playing"
               /\ gameState'.winnerTeamIndex = gameState.winnerTeamIndex
               /\ ~last'.result.gameOver
               /\ last'.result.winnerTeamIndex = None
               /\ last'.result.stalemate = NoStalemate]_vars

\* a draw has just ended the game by stalemate: the chip on the last open line was
\* placed, the card drawn, and no team can score any more
C21_Witness ==
  /\ AcceptedDraw
  /\ NoTeamCanScore(gameState)
  /\ EndedByStalemate(gameState, last.result, last.result.stalemate)
  /\ gameState.boardChips[<<1, 1>>] = 1
  /\ Len(gameState.players[1].hand) = gameState.config.handSize

\* the highest count of completed sequences, and the teams that have it
MaxCount(gs) == Max({gs.sequencesCompleted[t] : t \in Teams(gs)})
TiedAtMax(gs) == {t \in Teams(gs) : gs.sequencesCompleted[t] = MaxCount(gs)}

\* the winner and the reason the stalemate result r gives are those of the rule
ResolvedByRule(gs, r) ==
  /\ r.winnerTeamIndex \in Teams(gs)
  /\ r.reason \in {"highest_count", "first_to_reach"}
  /\ MaxCount(gs) = 0 => r.winnerTeamIndex = 0
  /\ Cardinality(TiedAtMax(gs)) = 1
       => r.winnerTeamIndex \in TiedAtMax(gs) /\ r.reason = "highest_count"
  /\ (MaxCount(gs) > 0 /\ Cardinality(TiedAtMax(gs)) > 1)
       => /\ r.reason = "first_to_reach"
          /\ r.winnerTeamIndex \in TiedAtMax(gs)
          /\ \A t \in TiedAtMax(gs) :
               gs.sequenceTimestamps[r.winnerTeamIndex][MaxCount(gs)]
                 <= gs.sequenceTimestamps[t][MaxCount(gs)]
  /\ r.sequenceCounts = [i \in 1..gs.config.teamCount |-> gs.sequencesCompleted[i - 1]]

\* C22: whenever checkStalemate reports a stalemate, the winner is the unique team with
\* the highest sequencesCompleted (reason highest_count) if there is one; otherwise,
\* among the teams tied at the maximum count m, a team whose m-th completion timestamp
\* is the earliest (reason first_to_reach); team 0 if every team has no sequence; and
\* sequenceCounts are the per-team counts.  The result a draw returns is that one.
C22_StalemateWinner ==
  /\ \A r \in {checkStalemate(gameState)} :
        r.isStalemate => ResolvedByRule(gameState, r)
  /\ (AcceptedDraw /\ last.result.stalemate.isStalemate)
        => ResolvedByRule(gameState, last.result.stalemate)

\* a draw has ended the game by stalemate with both teams at one sequence, and the
\* second team, which completed its sequence first, wins by first_to_reach
C22_Witness ==
  /\ AcceptedDraw
  /\ last.result.stalemate.isStalemate
  /\ last.result.stalemate.reason = "first_to_reach"
  /\ last.result.stalemate.winnerTeamIndex = 1
  /\ last.result.stalemate.sequenceCounts = <<1, 1>>
  /\ gameState.sequenceTimestamps[1][1] < gameState.sequenceTimestamps[0][1]
  /\ gameState.winnerTeamIndex = 1

\* checkStalemate finds the current board in stalemate
Stale == checkStalemate(gameState).isStalemate

\* the last handler run was a play that completed a sequence
Scored == AcceptedPlay /\ last.result.newSequences # <<>>

\* the last handler run was a play of a one-eyed jack that removed a chip
AcceptedRemoval == AcceptedPlay /\ last.result.action.type = "play-one-eyed"

\* what detectNewSequences returns for a chip of `team` on `cell` of the board filled up
\* with chips of the team
DetectedWhenFilled(team, cell) ==
  detectNewSequences(FilledBy(team), cell[1], cell[2], team,
                     gameState.lockedCells[team], gameState.sequencesCompleted[team],
                     gameState.config.sequencesToWin, gameState.config.sequenceLength)

\* no team below the win threshold gets a sequence accepted by placing chips on the
\* empty cells, however many
NoSequenceByPlacing ==
  \A team \in Teams(gameState) :
     gameState.sequencesCompleted[team] < gameState.config.sequencesToWin
       => \A cell \in Cells \ CORNER_POSITIONS :
             FilledBy(team)[cell] = team => DetectedWhenFilled(team, cell) = <<>>

\* C23 (amended): a board checkStalemate finds in stalemate is one where no team can
\* complete another sequence by placing chips: no filling of the empty cells gets a
\* sequence accepted, and every step but the removal of a chip by a one-eyed jack leaves
\* the board in stalemate and completes no sequence.
C23_StalemateUnlessRemoval ==
  /\ [](Stale => NoSequenceByPlacing)
  /\ [][((Accepted' \/ TimedOut) /\ ~AcceptedRemoval' /\ Stale)
         => (Stale' /\ ~Scored')]_vars

\* a chip placed with a two-eyed jack on a board in stalemate (the chip on <<1, 1>>
\* blocks the last line): the board stays in stalemate and no sequence is completed
C23_Witness ==
  /\ AcceptedPlay
  /\ last.result.action.type = "play-two-eyed"
  /\ last.result.action.targetRow = 0 /\ last.result.action.targetCol = 1
  /\ gameState.boardChips[<<1, 1>>] = 1
  /\ gameState.boardChips[<<0, 1>>] = 0
  /\ Stale
  /\ last.result.newSequences = <<>>

\* C23: once checkStalemate finds a reachable board in stalemate, no sequence of legal
\* plays and draws gets a sequence accepted for any team, one-eyed jacks removing
\* unlocked chips included: in particular, when a one-eyed jack removes a chip from a
\* board in stalemate in a game still in play, no chip placed afterwards makes
\* detectNewSequences return a sequence.
C23_NoSequenceAfterStalemate ==
  [][(AcceptedRemoval' /\ gameState.phase = "playing" /\ Stale)
       => \A team \in Teams(gameState) : \A cell \in Cells \ CORNER_POSITIONS :
             gameState'.boardChips[cell] = None => Detected(team, cell)' = <<>>]_vars

\* the number of sequences the rules of the game ask of a team: two with two teams, one
\* with three
SequencesAsked == IF gameState.config.teamCount = 2 THEN 2 ELSE 1

\* C24: the win threshold follows the team count: with two teams a team wins on
\* completing 2 sequences, with three teams as soon as it completes 1: once a team has
\* that many sequences the game is finished and won by such a team.
C24_WinThreshold ==
  \A team \in Teams(gameState) :
     gameState.sequencesCompleted[team] >= SequencesAsked
       => /\ gameState.phase = "finished"
          /\ gameState.winnerTeamIndex \in Teams(gameState)
          /\ gameState.sequencesCompleted[gameState.winnerTeamIndex] >= SequencesAsked

\* C25: the finished phase is absorbing: once the phase is finished no applyMove call
\* succeeds and the game state (winner, board, locked cells, counts, hands,
\* currentPlayerIndex) never changes again; no count ever exceeds sequencesToWin.
C25_FinishedIsAbsorbing ==
  [][gameState.phase = "finished"
       => /\ gameState' = gameState
          /\ last'.op = "game-action" => ~last'.result.success
          /\ \A team \in Teams(gameState) :
                gameState'.sequencesCompleted[team] <= gameState.config.sequencesToWin]_vars

\* every discard pile is empty and the deck holds n cards
Reshuffled(n) ==
  /\ Len(gameState.deck) = n
  /\ \A p \in Seats(gameState) : gameState.players[p].discardPile = <<>>

\* C26: in every reachable state, across every draw, replace-dead, play, reshuffle and
\* timeout, the deck, the hands and the discard piles together are the 104 cards of the
\* double deck, each of the 52 codes exactly twice: no card is duplicated or lost.
C26_CardConservation ==
  /\ Cardinality(CellsOf(CardCodes)) = 52
  /\ Len(CardsHeld(gameState)) = 104
  /\ \A card \in CellsOf(CardCodes) : Count(CardsHeld(gameState), card) = 2

\* a draw from the empty deck: the discard piles, 91 cards, were reshuffled into the
\* deck and one card drawn, after a chip was placed on <<2, 2>>
C26_Witness ==
  /\ AcceptedDraw
  /\ Reshuffled(90)
  /\ gameState.boardChips[<<2, 2>>] = 0
  /\ Len(gameState.players[0].hand) = gameState.config.handSize

\* C27: in every reachable state every cell in the locked set of a team holds a chip of
\* that team, no cell is in the locked sets of two teams, no corner is in a locked set,
\* and no corner holds a chip.
C27_LockConsistency ==
  /\ \A team \in Teams(gameState) : \A cell \in gameState.lockedCells[team] :
        /\ gameState.boardChips[cell] = team
        /\ cell \notin CORNER_POSITIONS
        /\ \A other \in Teams(gameState) \ {team} : cell \notin gameState.lockedCells[other]
  /\ \A corner \in CORNER_POSITIONS : gameState.boardChips[corner] = None

\* a play has just completed a sequence that runs from a corner: its four chips are
\* locked and the corner is not
C27_Witness ==
  /\ AcceptedPlay
  /\ last.result.newSequences # <<>>
  /\ CellsOf(last.result.newSequences[1].cells) \cap CORNER_POSITIONS # {}
  /\ LockedBy(last.result.newSequences[1]) \subseteq gameState.lockedCells[ActingTeam]
  /\ Cardinality(LockedBy(last.result.newSequences[1])) = gameState.config.sequenceLength - 1

\* the cards on the discard piles of gs
Discarded(gs) ==
  Concat([i \in 1..gs.config.playerCount |-> gs.players[i - 1].discardPile], 1)

\* every hand is full, but for the card the current player has played and not yet drawn
FullHands ==
  \A p \in Seats(gameState) :
     Len(gameState.players[p].hand)
       = gameState.config.handSize
           - (IF p = gameState.currentPlayerIndex /\ gameState.pendingDraw THEN 1 ELSE 0)

\* the step is an accepted draw or replace-dead that draws a card for player p: one
\* card comes off the deck, which is first refilled from the discard piles when empty
CardDrawn(p, discardedFirst) ==
  IF Len(gameState.deck) = 0
  THEN /\ Discarded(gameState') = <<>>
       /\ Len(gameState'.deck) = Len(Discarded(gameState)) + discardedFirst - 1
       /\ Len(gameState'.players[p].hand)
            = Len(gameState.players[p].hand) - discardedFirst + 1
  ELSE /\ gameState'.deck = Tail(gameState.deck)
       /\ Len(gameState'.players[p].hand)
            = Len(gameState.players[p].hand) - discardedFirst + 1
       /\ gameState'.players[p].hand[Len(gameState'.players[p].hand)]
            = Head(gameState.deck)

\* C28: every successful draw adds exactly one card to the actor's hand (and every
\* replace-dead gives one card for the one discarded): when the deck is empty all
\* discard piles are emptied and reshuffled into the deck first, and deck and discard
\* piles are never empty together, so a card is always there to draw.  With no
\* timeouts every hand is back at handSize after each draw: the hands are full at the
\* start, and every game-action leaves them full but for the card played and not yet
\* drawn.
C28_DrawRefillsHand ==
  /\ [](/\ Len(gameState.deck) + Len(Discarded(gameState)) > 0
        /\ last.op = "start-game" => FullHands)
  /\ [][/\ AcceptedDraw' => CardDrawn(last'.result.playerId, 0)
        /\ (Accepted' /\ last'.result.action.type = "replace-dead")
              => CardDrawn(last'.result.playerId, 1)
        /\ (last'.op = "game-action" /\ FullHands) => FullHands']_vars

\* a dead card has just been replaced with the deck empty: the 90 cards discarded and
\* the dead card were reshuffled and one of them drawn, and the hand is full
C28_Witness ==
  /\ Accepted
  /\ last.result.action.type = "replace-dead"
  /\ Reshuffled(90)
  /\ FullHands
  /\ Len(gameState.players[0].hand) = gameState.config.handSize

\* the cells of the straight line of sequenceLength cells from `start` in direction d
StraightLine(start, d) ==
  {<<start[1] + i * DIRECTIONS[d][1], start[2] + i * DIRECTIONS[d][2]>> :
     i \in 0..(gameState.config.sequenceLength - 1)}

\* the line is on the board, no non-corner cell of it holds a chip of another team, not
\* all of its non-corner cells are locked by the team, and at most one is once the team
\* has a sequence
OpenFor(team, cells) ==
  /\ cells \subseteq Cells
  /\ \A cell \in cells \ CORNER_POSITIONS : gameState.boardChips[cell] \in {None, team}
  /\ ~((cells \ CORNER_POSITIONS) \subseteq gameState.lockedCells[team])
  /\ gameState.sequencesCompleted[team] >= 1
       => Cardinality((cells \ CORNER_POSITIONS) \cap gameState.lockedCells[team]) <= 1

\* the lines still open, each with the team it is open for
OpenLines ==
  {o \in Teams(gameState) \X (1..Len(DIRECTIONS)) \X Cells :
     /\ gameState.sequencesCompleted[o[1]] < gameState.config.sequencesToWin
     /\ OpenFor(o[1], StraightLine(o[3], o[2]))}

\* C29: checkStalemate returns isStalemate = false exactly when there is a team below
\* sequencesToWin and a straight line of sequenceLength cells on the board, in one of the
\* four orientations from some start cell, such that no non-corner cell of the line
\* holds a chip of another team, not all of its non-corner cells are in the team's
\* locked set and, if the team has a completed sequence, at most one of them is.
\* Line by line, canCompleteLineAsSequence answers as the three conditions do.
C29_StalemateIffNoOpenLine ==
  /\ ~checkStalemate(gameState).isStalemate <=> OpenLines # {}
  /\ \A team \in Teams(gameState) : \A d \in 1..Len(DIRECTIONS) : \A start \in Cells :
        \A line \in {getLineOfN(start[1], start[2], DIRECTIONS[d][1], DIRECTIONS[d][2],
                                gameState.config.sequenceLength)} :
           IF line = <<>> THEN ~(StraightLine(start, d) \subseteq Cells)
           ELSE canCompleteLineAsSequence(line, gameState.boardChips, team,
                                          gameState.lockedCells[team],
                                          gameState.sequencesCompleted[team],
                                          gameState.lockedCells)
                  <=> OpenFor(team, StraightLine(start, d))

\* some line without a chip of another team is closed to a team only because it shares
\* two cells with the sequence the team has locked
ClosedByOverlap ==
  \E team \in Teams(gameState) : \E d \in 1..Len(DIRECTIONS) : \E start \in Cells :
     /\ StraightLine(start, d) \subseteq Cells
     /\ ~OpenFor(team, StraightLine(start, d))
     /\ \A cell \in StraightLine(start, d) \ CORNER_POSITIONS :
           gameState.boardChips[cell] \in {None, team}
     /\ Cardinality((StraightLine(start, d) \ CORNER_POSITIONS)
                      \cap gameState.lockedCells[team]) = 2

\* a draw has just run the check on a board with exactly one open line, the diagonal
\* from the corner <<0, 0>> for team 0, and the game goes on
C29_Witness ==
  /\ AcceptedDraw
  /\ gameState.phase = "playing"
  /\ ~last.result.gameOver
  /\ OpenLines = {<<0, 3, <<0, 0>>>>}

\* a draw has just run the check on a board where the overlap rule closes a line
C29_WitnessOverlap == AcceptedDraw /\ ClosedByOverlap

\* canTeamCompleteSequence for the team in the current state
CanComplete(team) ==
  canTeamCompleteSequence(gameState.boardChips, team, gameState.lockedCells[team],
                          gameState.sequencesCompleted[team], gameState.lockedCells,
                          gameState.config.sequenceLength)

\* no chip of the team placed on an empty non-corner cell makes detectNewSequences
\* return a sequence
NoSequenceNextPlacement(team) ==
  \A cell \in Cells \ CORNER_POSITIONS :
     gameState.boardChips[cell] = None => Detected(team, cell) = <<>>

\* C30: in every reachable state where canTeamCompleteSequence is false for a team, no
\* single placement of a chip of the team on an empty non-corner cell makes
\* detectNewSequences return a sequence for it; so when a draw declares the stalemate,
\* no team could score with its next placement.
C30_StalemateAgreesWithDetection ==
  /\ \A team \in Teams(gameState) : ~CanComplete(team) => NoSequenceNextPlacement(team)
  /\ (AcceptedDraw /\ last.result.stalemate.isStalemate)
        => \A team \in Teams(gameState) : NoSequenceNextPlacement(team)

\* team 1, which can complete no line, has just placed a chip on <<1, 1>>: no sequence
\* was detected, and none would be for any other cell
C30_Witness ==
  /\ AcceptedPlay
  /\ last.result.action.type = "play-normal"
  /\ last.result.playerId = 1
  /\ gameState.boardChips[<<1, 1>>] = 1
  /\ last.result.newSequences = <<>>
  /\ ~CanComplete(1)
  /\ \E cell \in Cells \ CORNER_POSITIONS : gameState.boardChips[cell] = None

\* the sequence is a straight run: sequenceLength distinct cells, each one step after the
\* one before it in one of the four DIRECTIONS, each a corner or under a chip of the team
WellFormed(sequence, boardChips) ==
  /\ Len(sequence.cells) = gameState.config.sequenceLength
  /\ Cardinality(CellsOf(sequence.cells)) = gameState.config.sequenceLength
  /\ \E d \in 1..4 : \A i \in 2..Len(sequence.cells) :
       sequence.cells[i] = <<sequence.cells[i - 1][1] + DIRECTIONS[d][1],
                             sequence.cells[i - 1][2] + DIRECTIONS[d][2]>>
  /\ \A cell \in CellsOf(sequence.cells) :
       cell \in CORNER_POSITIONS \/ boardChips[cell] = sequence.teamIndex

\* the accepted play has committed a sequence
Committed == AcceptedPlay /\ last.result.newSequences # <<>>

\* C31: every entry of completedSequences consists of exactly config.sequenceLength
\* distinct cells, contiguous along one of the four orientations, each a corner or under
\* a chip of the committing team; the play that commits a sequence appends exactly that
\* one entry, for the team of the player, and the entry contains the cell just filled.
C31_CommittedSequenceShape ==
  /\ [](\A i \in 1..Len(gameState.completedSequences) :
          WellFormed(gameState.completedSequences[i], gameState.boardChips))
  /\ [][Committed' =>
          /\ gameState'.completedSequences
               = Append(gameState.completedSequences, last'.result.newSequences[1])
          /\ last'.result.newSequences[1].teamIndex
               = gameState.players[last'.result.playerId].teamIndex
          /\ <<last'.result.action.targetRow, last'.result.action.targetCol>>
               \in CellsOf(last'.result.newSequences[1].cells)
          /\ gameState.boardChips[<<last'.result.action.targetRow,
                                    last'.result.action.targetCol>>] = None
          /\ WellFormed(last'.result.newSequences[1], gameState'.boardChips)]_vars

\* C31 witness: the last chip of a line of four was placed, and the sequence committed
\* is not the line itself but a window, holding the chip and a corner, of the longer run
\* that the corner makes with the line
C31_Witness ==
  /\ Committed
  /\ scn.moves = 1
  /\ gameState.config.sequenceLength = 4
  /\ Len(gameState.completedSequences) = 1
  /\ \E corner \in CORNER_POSITIONS :
       corner \in CellsOf(gameState.completedSequences[1].cells)
  /\ scn.target \in CellsOf(gameState.completedSequences[1].cells)
  /\ CellsOf(gameState.completedSequences[1].cells) # CellsOf(scn.line)

\* the entries of completedSequences before the j-th that belong to the same team
EarlierOfTeam(j) ==
  {i \in 1..(j - 1) :
     gameState.completedSequences[i].teamIndex = gameState.completedSequences[j].teamIndex}

\* C32: any two sequences committed for the same team share at most one non-corner
\* cell, and every sequence committed after the team's first shares at most one
\* non-corner cell with all the earlier sequences of the team taken together.
C32_CommittedOverlap ==
  \A j \in 1..Len(gameState.completedSequences) :
    /\ \A i \in EarlierOfTeam(j) :
         Cardinality(LockedBy(gameState.completedSequences[i])
                       \cap LockedBy(gameState.completedSequences[j])) <= 1
    /\ Cardinality(LockedBy(gameState.completedSequences[j])
                     \cap UNION {LockedBy(gameState.completedSequences[i]) :
                                   i \in EarlierOfTeam(j)}) <= 1

\* C32 witness: a play has committed the second sequence of a team, which shares
\* exactly one chip with the first, although the chip placed also completed windows
\* that share more
C32_Witness ==
  /\ Committed
  /\ Len(gameState.completedSequences) = 2
  /\ EarlierOfTeam(2) = {1}
  /\ Cardinality(LockedBy(gameState.completedSequences[1])
                   \cap LockedBy(gameState.completedSequences[2])) = 1
  /\ gameState.completedSequences[2] = last.result.newSequences[1]
  /\ \E start \in Cells : \E d \in 1..4 :
       /\ StraightLine(start, d) \subseteq Cells
       /\ <<last.result.action.targetRow, last.result.action.targetCol>>
            \in StraightLine(start, d)
       /\ \A c \in StraightLine(start, d) :
            c \in CORNER_POSITIONS
              \/ gameState.boardChips[c] = gameState.completedSequences[2].teamIndex
       /\ Cardinality(StraightLine(start, d)
                        \cap LockedBy(gameState.completedSequences[1])) >= 2

\* the action type that goes with the card: play-two-eyed for JD and JC, play-one-eyed
\* for JH and JS, play-normal for every other card
KindOf(card) ==
  IF card \in {"JD", "JC"} THEN "play-two-eyed"
  ELSE IF card \in {"JH", "JS"} THEN "play-one-eyed"
  ELSE "play-normal"

\* the target is one getLegalTargets returns for the card, for the player to move
TargetLegalFor(action) ==
  <<action.targetRow, action.targetCol>>
    \in getLegalTargets(action.card, gameState.boardChips, ActingTeam,
                        gameState.lockedCells, gameState.lastRemovedCell)

\* C33: a play-* action is legal only when its type is the one that goes with its card;
\* with any other type isLegalMove finds it invalid and applyMove fails with an error
\* and leaves the GameState as it was, also when the player to move holds the card and
\* the target is legal for the card.
C33_KindMatchesCard ==
  \A playerId \in PlayerIds(gameState) : \A action \in PlayRequests :
    /\ isLegalMove(gameState, playerId, action).valid => action.type = KindOf(action.card)
    /\ action.type # KindOf(action.card) =>
         \A now \in Readings(gameState) :
           LET applied == applyMove(gameState, playerId, action, 0, now)
           IN /\ ~applied.result.success
              /\ applied.result.error # ""
              /\ applied.state = gameState
    /\ (/\ playerId = gameState.currentPlayerIndex
        /\ ~gameState.pendingDraw
        /\ Includes(gameState.players[playerId].hand, action.card)
        /\ TargetLegalFor(action))
         => isLegalMove(gameState, playerId, action).valid
              = (action.type = KindOf(action.card))

\* C33 witness: the player to move holds a two-eyed jack, an empty cell is a legal
\* target for it, and the request just handled was refused for the action type alone
C33_Witness ==
  /\ Rejected
  /\ last.result.error = "Use the correct jack action"
  /\ ~gameState.pendingDraw
  /\ \E action \in PlayRequests :
       /\ action.card = "JD"
       /\ action.type = "play-normal"
       /\ Includes(gameState.players[gameState.currentPlayerIndex].hand, action.card)
       /\ TargetLegalFor(action)

\* C33 witness: a one-eyed jack offered as a two-eyed jack on a chip it could remove
C33_WitnessOneEyed ==
  /\ Rejected
  /\ last.result.error = "That card is not a two-eyed jack"
  /\ \E action \in PlayRequests :
       /\ action.card = "JH"
       /\ action.type = "play-two-eyed"
       /\ Includes(gameState.players[gameState.currentPlayerIndex].hand, action.card)
       /\ TargetLegalFor(action)

\* the play-* requests naming the card, on any cell of the board
PlaysOf(card) ==
  {PlayAction(type, card, target[1], target[2]) : type \in PlayTypes, target \in Cells}

\* C34: a play-normal is legal only on a cell that is printed with the card named and
\* holds no chip; a card that isDeadCard finds dead has no legal play-* on any cell of
\* the board, for any player, while the player to move who holds it may replace it (once
\* per turn); every play-normal accepted put its chip on an empty cell printed with the
\* card, and the card was not dead.
C34_NormalPlayTargets ==
  /\ [](\A playerId \in PlayerIds(gameState) : \A card \in Position.cards :
          /\ \A action \in PlaysOf(card) :
               (action.type = "play-normal"
                  /\ isLegalMove(gameState, playerId, action).valid)
                 => /\ PrintedAt(<<action.targetRow, action.targetCol>>) = card
                    /\ gameState.boardChips[<<action.targetRow, action.targetCol>>] = None
          /\ isDeadCard(card, gameState.boardChips) =>
               /\ \A action \in PlaysOf(card) :
                    ~isLegalMove(gameState, playerId, action).valid
               /\ (/\ playerId = gameState.currentPlayerIndex
                   /\ Includes(gameState.players[playerId].hand, card)
                   /\ ~gameState.deadCardReplacedThisTurn)
                    => isLegalMove(gameState, playerId, ReplaceDeadAction(card)).valid)
  /\ [][(AcceptedPlay' /\ last'.result.action.type = "play-normal") =>
          /\ PrintedAt(<<last'.result.action.targetRow, last'.result.action.targetCol>>)
               = last'.result.action.card
          /\ gameState.boardChips[<<last'.result.action.targetRow,
                                    last'.result.action.targetCol>>] = None
          /\ ~isDeadCard(last'.result.action.card, gameState.boardChips)]_vars

\* C34 witness: the player to move holds a card whose two cells both hold chips, has
\* just been refused a play of it, and may still replace it
C34_Witness ==
  /\ Rejected
  /\ last.result.error = "Invalid target position"
  /\ ~gameState.pendingDraw
  /\ \E card \in Position.cards \ Jacks :
       /\ Includes(gameState.players[gameState.currentPlayerIndex].hand, card)
       /\ isDeadCard(card, gameState.boardChips)
       /\ \E target \in Position.focus : PrintedAt(target) = card
       /\ isLegalMove(gameState, gameState.currentPlayerIndex,
                      ReplaceDeadAction(card)).valid

\* the three per-turn fields are as at the start of a turn
TurnFieldsClear(gs) ==
  /\ ~gs.pendingDraw
  /\ ~gs.deadCardReplacedThisTurn
  /\ gs.lastRemovedCell = NoCell

\* C35: the state right after every accepted draw and after every turn timeout of a game
\* in play has pendingDraw false, deadCardReplacedThisTurn false and lastRemovedCell
\* null; deadCardReplacedThisTurn goes from true to false only in such a step, which
\* passes the turn to the next seat.
C35_TurnStartsClear ==
  [][/\ (AcceptedDraw' \/ TimedOut) => TurnFieldsClear(gameState')
     /\ (gameState.deadCardReplacedThisTurn /\ ~gameState'.deadCardReplacedThisTurn) =>
          /\ AcceptedDraw' \/ TimedOut
          /\ gameState'.currentPlayerIndex = NextSeat]_vars

\* C35 witness: with the deck spent, a player has replaced a dead card (the piles were
\* shuffled into the deck), placed a chip (the one card on the player's pile, the one
\* cell of the board that changed) and drawn; the next turn has started with the three
\* fields clear
C35_Witness ==
  /\ AcceptedDraw
  /\ scn.moves = 2
  /\ TurnFieldsClear(gameState)
  /\ gameState.currentPlayerIndex
       = (last.result.playerId + 1) % gameState.config.playerCount
  /\ Setup(Position).deck = <<>>
  /\ Len(gameState.players[last.result.playerId].discardPile) = 1
  /\ \E cell \in Cells :
       /\ Setup(Position).boardChips[cell] = None
       /\ gameState.boardChips[cell] = gameState.players[last.result.playerId].teamIndex
       /\ \A other \in Cells \ {cell} :
            gameState.boardChips[other] = Setup(Position).boardChips[other]

\* C35 witness: the turn timer ran out on a player who had played and not drawn
C35_WitnessTimeout ==
  /\ last.op = "turn-timeout"
  /\ playedSinceDraw
  /\ gameState.phase = "playing"
  /\ TurnFieldsClear(gameState)

\* C36: an accepted play-one-eyed takes the first copy of the jack out of the actor's
\* hand and puts it on top of the actor's discard pile, empties the target cell, which
\* held a chip, records the cell as lastRemovedCell and sets pendingDraw; no other cell
\* of the board changes, no sequence is reported or committed, and lockedCells,
\* sequencesCompleted, completedSequences, phase, winnerTeamIndex, currentPlayerIndex,
\* the deck and the other players' cards are as before.
C36_OneEyedFrame ==
  [][AcceptedRemoval' =>
       LET action == last'.result.action
           actor == last'.result.playerId
           target == <<last'.result.action.targetRow, last'.result.action.targetCol>>
       IN /\ action.card \in ONE_EYED_JACKS
          /\ gameState.boardChips[target] # None
          /\ gameState'.players[actor].hand
               = Splice(gameState.players[actor].hand,
                        IndexOf(gameState.players[actor].hand, action.card))
          /\ gameState'.players[actor].discardPile
               = Append(gameState.players[actor].discardPile, action.card)
          /\ \A p \in Seats(gameState) \ {actor} : gameState'.players[p] = gameState.players[p]
          /\ gameState'.boardChips[target] = None
          /\ \A cell \in Cells \ {target} :
               gameState'.boardChips[cell] = gameState.boardChips[cell]
          /\ gameState'.lastRemovedCell = target
          /\ gameState'.pendingDraw
          /\ last'.result.newSequences = <<>>
          /\ ~last'.result.gameOver
          /\ gameState'.lockedCells = gameState.lockedCells
          /\ gameState'.sequencesCompleted = gameState.sequencesCompleted
          /\ gameState'.completedSequences = gameState.completedSequences
          /\ gameState'.sequenceTimestamps = gameState.sequenceTimestamps
          /\ gameState'.phase = gameState.phase
          /\ gameState'.winnerTeamIndex = gameState.winnerTeamIndex
          /\ gameState'.currentPlayerIndex = gameState.currentPlayerIndex
          /\ gameState'.deadCardReplacedThisTurn = gameState.deadCardReplacedThisTurn
          /\ gameState'.deck = gameState.deck]_vars

\* C36 witness: a one-eyed jack has removed a chip from a cell where a chip of the
\* actor's team would complete a sequence; the cell is empty and recorded, the jack lies
\* on top of the actor's pile, the draw is pending and the game goes on
C36_Witness ==
  /\ AcceptedRemoval
  /\ gameState.phase = "playing"
  /\ gameState.pendingDraw
  /\ gameState.lastRemovedCell
       = <<last.result.action.targetRow, last.result.action.targetCol>>
  /\ gameState.boardChips[gameState.lastRemovedCell] = None
  /\ Detected(ActingTeam, gameState.lastRemovedCell) # <<>>
  /\ gameState.players[gameState.currentPlayerIndex].discardPile
       [Len(gameState.players[gameState.currentPlayerIndex].discardPile)]
       = last.result.action.card

\* the play-* requests that isLegalMove accepts from the player to move
LegalPlays == {action \in PlayRequests :
                 isLegalMove(gameState, gameState.currentPlayerIndex, action).valid}

\* C37: an accepted replace-dead takes the first copy of the named card out of the
\* actor's hand and puts it on the actor's discard pile, from where an empty deck is
\* refilled with all the piles; one replacement is drawn into the hand, which keeps its
\* size; deadCardReplacedThisTurn is set; currentPlayerIndex, pendingDraw,
\* lastRemovedCell, the board, the locked cells, the sequence counts, phase and winner
\* are as before; every play-* of a card other than the one replaced that was legal
\* before is legal after, so the player goes on with the turn.
C37_ReplaceDeadFrame ==
  [][AcceptedReplace' =>
       LET card == last'.result.action.card
           actor == last'.result.playerId
           kept == Splice(gameState.players[actor].hand,
                          IndexOf(gameState.players[actor].hand, card))
       IN /\ actor = gameState.currentPlayerIndex
          /\ CardDrawn(actor, 1)
          /\ SubSeq(gameState'.players[actor].hand, 1, Len(kept)) = kept
          /\ Len(gameState'.players[actor].hand) = Len(gameState.players[actor].hand)
          /\ Len(gameState.deck) > 0 =>
               /\ gameState'.players[actor].discardPile
                    = Append(gameState.players[actor].discardPile, card)
               /\ \A p \in Seats(gameState) \ {actor} :
                    gameState'.players[p] = gameState.players[p]
          /\ Len(gameState.deck) = 0 =>
               /\ \A c \in CellsOf(CardCodes) :
                    Count(gameState'.deck, c)
                      + (IF gameState'.players[actor].hand[Len(kept) + 1] = c THEN 1 ELSE 0)
                      = Count(Discarded(gameState), c) + (IF c = card THEN 1 ELSE 0)
               /\ \A p \in Seats(gameState) \ {actor} :
                    gameState'.players[p].hand = gameState.players[p].hand
          /\ gameState'.deadCardReplacedThisTurn
          /\ gameState'.currentPlayerIndex = gameState.currentPlayerIndex
          /\ gameState'.pendingDraw = gameState.pendingDraw
          /\ gameState'.lastRemovedCell = gameState.lastRemovedCell
          /\ gameState'.boardChips = gameState.boardChips
          /\ gameState'.lockedCells = gameState.lockedCells
          /\ gameState'.sequencesCompleted = gameState.sequencesCompleted
          /\ gameState'.completedSequences = gameState.completedSequences
          /\ gameState'.phase = gameState.phase
          /\ gameState'.winnerTeamIndex = gameState.winnerTeamIndex
          /\ {action \in LegalPlays : action.card # card} \subseteq LegalPlays']_vars

\* C37 witness: the player to move has replaced a dead card before playing and has a
\* legal play; the deck was empty, so the discard piles went into it
C37_Witness ==
  /\ AcceptedReplace
  /\ ~gameState.pendingDraw
  /\ gameState.deadCardReplacedThisTurn
  /\ LegalPlays # {}
  /\ Setup(Position).deck = <<>>
  /\ Discarded(gameState) = <<>>

\* C37 witness: a dead card replaced from a deck that had cards; it lies on the pile
C37_WitnessPile ==
  /\ AcceptedReplace
  /\ Len(gameState.players[gameState.currentPlayerIndex].discardPile) > 0
  /\ gameState.players[gameState.currentPlayerIndex].discardPile
       [Len(gameState.players[gameState.currentPlayerIndex].discardPile)]
       = last.result.action.card

\* the placements (play-normal, play-two-eyed) of any card of the deck on any cell
Placements ==
  {PlayAction(type, card, target[1], target[2]) :
     type \in {"play-normal", "play-two-eyed"}, card \in CellsOf(CardCodes),
     target \in Cells}

\* C38: whenever lastRemovedCell is set, pendingDraw is true and the cell named is empty
\* and no corner; so in such a state every placement, of any card on any cell and by any
\* player, is rejected, and the player to move is refused for the pending draw before the
\* targets are looked at: the test of lastRemovedCell in getLegalTargets never decides a
\* placement.
C38_RemovedCellOnlyWhilePending ==
  gameState.lastRemovedCell # NoCell =>
    /\ gameState.pendingDraw
    /\ gameState.lastRemovedCell \in Cells \ CORNER_POSITIONS
    /\ gameState.boardChips[gameState.lastRemovedCell] = None
    /\ \A action \in Placements :
         /\ \A playerId \in PlayerIds(gameState) :
              ~isLegalMove(gameState, playerId, action).valid
         /\ isLegalMove(gameState, gameState.currentPlayerIndex, action)
              = Invalid("You must draw a card to complete your turn")

\* C38 witness: a chip has been removed, the draw is pending, and the player to move
\* holds a two-eyed jack, for which the emptied cell would be a target but for the
\* record of the removal
C38_Witness ==
  /\ AcceptedRemoval
  /\ gameState.lastRemovedCell # NoCell
  /\ gameState.pendingDraw
  /\ \E card \in TWO_EYED_JACKS :
       /\ Includes(gameState.players[gameState.currentPlayerIndex].hand, card)
       /\ gameState.lastRemovedCell
            \in getLegalTargets(card, gameState.boardChips, ActingTeam,
                                gameState.lockedCells, NoCell)
       /\ gameState.lastRemovedCell
            \notin getLegalTargets(card, gameState.boardChips, ActingTeam,
                                   gameState.lockedCells, gameState.lastRemovedCell)

\* the timestamp recorded for the k-th entry of completedSequences: the entry is the
\* n-th of its team, and the team's n-th timestamp is its own
StampOf(k) ==
  gameState.sequenceTimestamps[gameState.completedSequences[k].teamIndex]
    [Cardinality(EarlierOfTeam(k)) + 1]

TimedTurnOf(p) ==
  /\ gameState.phase = "playing"
  /\ gameState.turnTimeLimit > 0
  /\ gameState.currentPlayerIndex = p

\* C40: in a game with turnTimeLimit > 0, every state in the playing phase has exactly
\* one turn-timer callback pending, the one the room's entry refers to, scheduled for
\* the turn of the player to move; and, a pending callback being run in the end, from
\* every such state the turn passes from that player or the game finishes, whether or
\* not any player sends a request.
C40_TimerLiveness ==
  /\ [](\A p \in Seats(gameState) :
          TimedTurnOf(p) =>
            /\ Pending = 1
            /\ timer = [entry |-> "live", turn |-> p, orphans |-> 0])
  /\ \A p \in 0..3 :
       TimedTurnOf(p) ~> (gameState.currentPlayerIndex # p \/ gameState.phase = "finished")

\* C40 witness: no request was accepted since the game started, the timer of the first
\* turn has run out, and the timer of the next player's turn is pending
C40_Witness ==
  /\ last.op = "turn-timeout"
  /\ scn.moves = 0
  /\ gameState = [Setup(Position) EXCEPT
                    !.currentPlayerIndex = (@ + 1) % gameState.config.playerCount]
  /\ TimedTurnOf((Position.currentPlayerIndex + 1) % Position.playerCount)
  /\ timer = [entry |-> "live", turn |-> gameState.currentPlayerIndex, orphans |-> 0]

====
